---- MODULE Spec2Model ----
(***************************************************************************)
(* A model of three analyses of the MIR borrow checker:                    *)
(*   - the place conflict analysis (borrow_check/places_conflict.rs),      *)
(*   - the move path lookup tables (dataflow/move_paths/mod.rs),           *)
(*   - the liveness search of explain_borrow/find_use.rs.                  *)
(* Each analysis has its own specification over the shared variables; the  *)
(* variables of the other analyses stay at their idle values.              *)
(***************************************************************************)
EXTENDS Integers, Sequences, FiniteSets, TLC

VARIABLES
    \* place conflict analysis
    op,              \* the entry point that was called, "none" before the call
    borrow_place,    \* the borrowed place
    access_place,    \* the accessed place
    borrow_kind,     \* BorrowKind of the borrow
    access,          \* AccessDepth of the access
    bias,            \* PlaceConflictBias
    result,          \* "true" / "false" of the query, "bug" for bug!(), "pending" before
    \* move paths
    move_paths,      \* MoveData::move_paths, the arena of MovePath nodes
    rev_lookup,      \* MoveData::rev_lookup, the MovePathLookup tables
    mp_op,           \* the last operation on the move data, "none" before any
    mp_place,        \* its place
    mp_result,       \* its result
    \* liveness search
    body,            \* UseFinder::body
    regioncx,        \* UseFinder::regioncx, the points each region is live at
    start_point,     \* UseFinder::start_point
    queue,           \* the queue of find
    visited,         \* the visited set of find
    cause,           \* the Option<Cause> find returns, Pending before it returns
    \* opaque types
    opaque_defn,             \* the OpaqueTypeDecl: substs, concrete_ty, has_required_region_bounds
    required_region_bounds,  \* tcx.required_region_bounds of the opaque type
    free_region_relations,   \* the FreeRegionRelations given
    ot_least_region,         \* least_region of constrain_opaque_type, "None" before it is set
    ot_errors,               \* the diagnostics emitted
    ot_sub_regions,          \* the calls of infcx.sub_regions, as pairs (least_region, r)
    ot_pc,                   \* "idle", "called", "returned"
    \* Glb
    glb_a,           \* the first type related
    glb_b,           \* the second type related
    glb_result,      \* the RelateResult
    glb_pc,          \* "idle", "called", "returned"
    \* constraint conversion
    constraints,     \* the MirTypeckRegionConstraints the converter pushes to
    locations,       \* ConstraintConversion::locations
    category,        \* ConstraintConversion::category
    cc_status,       \* "idle", "ok", or the bug! that ended the pass
    cc_calls,        \* the calls made on the converter, in order
    cc_before,       \* the constraints before the last call
    cc_vid_calls,    \* the number of to_region_vid calls of the last call
    \* one comparison of two array projections
    pi_elem1,        \* the element of pi1
    pi_elem2,        \* the element of pi2
    pi_bias,         \* the bias of the comparison
    pi_overlap       \* "pending", then the Overlap place_projection_conflict returned

conflict_vars == <<op, borrow_place, access_place, borrow_kind, access, bias, result>>

move_vars == <<move_paths, rev_lookup, mp_op, mp_place, mp_result>>

find_vars == <<body, regioncx, start_point, queue, visited, cause>>

opaque_vars == <<opaque_defn, required_region_bounds, free_region_relations, ot_least_region, ot_errors, ot_sub_regions, ot_pc>>

glb_vars == <<glb_a, glb_b, glb_result, glb_pc>>

conv_vars == <<constraints, locations, category, cc_status, cc_calls, cc_before, cc_vid_calls>>

proj_vars == <<pi_elem1, pi_elem2, pi_bias, pi_overlap>>

vars == <<conflict_vars, move_vars, find_vars, opaque_vars, glb_vars, conv_vars, proj_vars>>

----------------------------------------------------------------------------
(* Bounds of the model *)

\* longest projection list of a place
MaxProj == 3

\* most move paths created on top of the paths of the locals
MaxNewPaths == 3

----------------------------------------------------------------------------
(* The types of the analysed body.  ty.sty is the "sty" field; an Adt      *)
(* carries is_union / has_dtor / is_enum and, per variant, its field types *)

Scalar == [sty |-> "Scalar"]
Ref(mutbl, t) == [sty |-> "Ref", mutbl |-> mutbl, to |-> t]
RawPtr(t) == [sty |-> "RawPtr", to |-> t]
Array(t, len) == [sty |-> "Array", elem |-> t, len |-> len]
Adt(flavour, dtor, variants) ==
    [sty |-> "Adt", is_union |-> (flavour = "union"), is_enum |-> (flavour = "enum"),
     has_dtor |-> dtor, variants |-> variants]

TypeTable ==
    [n \in {"i32", "S", "D", "U", "E", "N", "F", "RM", "RI", "RP", "AU", "Z"} |->
        CASE n = "i32" -> Scalar
          [] n = "S"   -> Adt("struct", FALSE, << <<"i32", "RM">> >>)
          [] n = "D"   -> Adt("struct", TRUE, << <<"RM", "RI">> >>)
          [] n = "U"   -> Adt("union", FALSE, << <<"S", "D">> >>)
          [] n = "E"   -> Adt("enum", TRUE, << <<"RP">>, <<"i32">> >>)
          [] n = "N"   -> Adt("struct", FALSE, << <<"S", "F">> >>)
          [] n = "F"   -> Adt("enum", FALSE, << <<"i32">>, <<"S">> >>)
          [] n = "RM"  -> Ref("MutMutable", "D")
          [] n = "RI"  -> Ref("MutImmutable", "S")
          [] n = "RP"  -> RawPtr("i32")
          [] n = "AU"  -> Array("U", 2)
          [] n = "Z"   -> Array("i32", 0)]

(* Place bases: locals, static items and promoteds *)
Local(l) == [kind |-> "Local", id |-> l]
Static(d) == [kind |-> "Static", id |-> d]
Promoted(p) == [kind |-> "Promoted", id |-> p]

\* body.local_decls: the type of every local of the body
local_decls ==
    [l \in 1..8 |->
        CASE l = 1 -> "S"
          [] l = 2 -> "U"
          [] l = 3 -> "AU"
          [] l = 4 -> "E"
          [] l = 5 -> "D"
          [] l = 6 -> "N"
          [] l = 7 -> "i32"
          [] l = 8 -> "i32"]

Locals == DOMAIN local_decls

\* the static items (def ids) with their type, and tcx.is_mutable_static
StaticIds == {1, 2}
static_ty == [d \in StaticIds |-> IF d = 1 THEN "S" ELSE "U"]
is_mutable_static(d) == d = 2

\* the promoteds with their type
PromotedIds == {0, 1}
promoted_ty == [p \in PromotedIds |-> IF p = 0 THEN "Z" ELSE "AU"]

Bases ==
    {Local(l) : l \in Locals} \cup {Static(d) : d \in StaticIds}
        \cup {Promoted(p) : p \in PromotedIds}

BaseTy(b) ==
    CASE b.kind = "Local" -> local_decls[b.id]
      [] b.kind = "Static" -> static_ty[b.id]
      [] b.kind = "Promoted" -> promoted_ty[b.id]

(* Projection elements *)
Deref == [tag |-> "Deref"]
Field(f) == [tag |-> "Field", f |-> f]
Index(l) == [tag |-> "Index", local |-> l]
ConstantIndex(o, m, fe) ==
    [tag |-> "ConstantIndex", offset |-> o, min_length |-> m, from_end |-> fe]
Subslice(from, to) == [tag |-> "Subslice", from |-> from, to |-> to]
Downcast(v) == [tag |-> "Downcast", variant |-> v]

\* the array projections the generated places use
ArrayElems ==
    {Index(7), Index(8), ConstantIndex(0, 1, FALSE), ConstantIndex(1, 1, TRUE),
     Subslice(0, 0)}

(* PlaceTy: a type name and the variant a Downcast selected (0 = none) *)
PlaceTy(t, v) == [ty |-> t, variant |-> v]

\* the projections a value of place type pt admits
ElemsOf(pt) ==
    LET t == TypeTable[pt.ty]
    IN CASE t.sty \in {"Ref", "RawPtr"} -> {Deref}
         [] t.sty = "Array" -> ArrayElems
         [] t.sty = "Adt" /\ t.is_enum /\ pt.variant = 0 ->
                {Downcast(v) : v \in 1..Len(t.variants)}
         [] t.sty = "Adt" /\ t.is_enum /\ pt.variant # 0 ->
                {Field(f) : f \in 1..Len(t.variants[pt.variant])}
         [] t.sty = "Adt" /\ ~t.is_enum ->
                {Field(f) : f \in 1..Len(t.variants[1])}
         [] OTHER -> {}

\* PlaceTy::projection_ty
projection_ty(pt, elem) ==
    LET t == TypeTable[pt.ty]
    IN CASE elem.tag = "Deref" -> PlaceTy(t.to, 0)
         [] elem.tag \in {"Index", "ConstantIndex"} -> PlaceTy(t.elem, 0)
         [] elem.tag = "Subslice" -> PlaceTy(pt.ty, 0)
         [] elem.tag = "Downcast" -> PlaceTy(pt.ty, elem.variant)
         [] elem.tag = "Field" ->
                PlaceTy(t.variants[IF pt.variant = 0 THEN 1 ELSE pt.variant][elem.f], 0)

\* Place::ty of the prefix of place p that keeps its first n projections
RECURSIVE place_ty(_, _)
place_ty(p, n) ==
    IF n = 0 THEN PlaceTy(BaseTy(p.base), 0)
    ELSE projection_ty(place_ty(p, n - 1), p.proj[n])

Place(b, proj) == [base |-> b, proj |-> proj]

RECURSIVE PlacesUpTo(_)
PlacesUpTo(n) ==
    IF n = 0 THEN {Place(b, <<>>) : b \in Bases}
    ELSE LET shorter == PlacesUpTo(n - 1)
         IN shorter \cup
            UNION {{Place(p.base, Append(p.proj, e)) : e \in ElemsOf(place_ty(p, Len(p.proj)))}
                      : p \in {q \in shorter : Len(q.proj) = n - 1}}

\* the well-typed places of the body, by growing length of projections
Places == PlacesUpTo(MaxProj)

BorrowKinds == {"Shared", "Shallow", "Unique", "Mut"}
AccessDepths ==
    {"Deep", "Drop", "Shallow(None)", "Shallow(ArrayLength)", "Shallow(ShallowBorrow)"}
Biases == {"Overlap", "NoOverlap"}

----------------------------------------------------------------------------
(* places_conflict.rs *)

\* mutation of local_base_conflict: two different locals taken for the same
local_base_conflict_same(l1, l2) == "EqualOrDisjoint"

\* the (Local, Local) arm of place_base_conflict
local_base_conflict(l1, l2) ==
    IF l1 = l2 THEN "EqualOrDisjoint" ELSE "Disjoint"

\* mutation of place_base_conflict: a mutable static is taken like any static
place_base_conflict_static_mut(elem1, elem2) ==
    CASE elem1.kind = "Local" /\ elem2.kind = "Local" ->
            local_base_conflict(elem1.id, elem2.id)
      [] elem1.kind = "Static" /\ elem2.kind = "Static" ->
            IF elem1.id # elem2.id THEN "Disjoint" ELSE "EqualOrDisjoint"
      [] elem1.kind = "Promoted" /\ elem2.kind = "Promoted" ->
            IF elem1.id = elem2.id
            THEN IF TypeTable[promoted_ty[elem1.id]].sty = "Array"
                    /\ TypeTable[promoted_ty[elem1.id]].len = 0
                 THEN "Disjoint"
                 ELSE "EqualOrDisjoint"
            ELSE "Disjoint"
      [] OTHER -> "Disjoint"


place_base_conflict(elem1, elem2) ==
    CASE elem1.kind = "Local" /\ elem2.kind = "Local" ->
            local_base_conflict(elem1.id, elem2.id)
      [] elem1.kind = "Static" /\ elem2.kind = "Static" ->
            IF elem1.id # elem2.id THEN "Disjoint"
            ELSE IF is_mutable_static(elem1.id) THEN "Disjoint"
            ELSE "EqualOrDisjoint"
      [] elem1.kind = "Promoted" /\ elem2.kind = "Promoted" ->
            IF elem1.id = elem2.id
            THEN IF TypeTable[promoted_ty[elem1.id]].sty = "Array"
                    /\ TypeTable[promoted_ty[elem1.id]].len = 0
                 THEN "Disjoint"
                 ELSE "EqualOrDisjoint"
            ELSE "Disjoint"
      [] OTHER -> "Disjoint"

\* mutation of field_conflict: the union check is lost
field_conflict_no_union(ty, f1, f2) ==
    IF f1 = f2 THEN "EqualOrDisjoint" ELSE "Disjoint"

\* mutation of field_conflict: different fields of a struct taken for equal
field_conflict_struct_equal(ty, f1, f2) ==
    IF f1 = f2 THEN "EqualOrDisjoint"
    ELSE IF TypeTable[ty].sty = "Adt" /\ TypeTable[ty].is_union
         THEN "Arbitrary"
         ELSE "EqualOrDisjoint"

\* the (Field, Field) arm of place_projection_conflict; ty is pi1.base.ty
field_conflict(ty, f1, f2) ==
    IF f1 = f2 THEN "EqualOrDisjoint"
    ELSE IF TypeTable[ty].sty = "Adt" /\ TypeTable[ty].is_union
         THEN "Arbitrary"
         ELSE "Disjoint"

\* mutation of index_conflict: the bias is ignored
index_conflict_disjoint(b) == "Disjoint"

\* mutation of index_conflict: array indexes always taken for possibly equal
index_conflict_equal(b) == "EqualOrDisjoint"


\* mutation of index_conflict: the two biases taken for each other
index_conflict_swapped(b) ==
    IF b = "Overlap" THEN "Disjoint" ELSE "EqualOrDisjoint"


\* the arm of place_projection_conflict for array indexes decided by the bias
index_conflict(b) ==
    IF b = "Overlap" THEN "EqualOrDisjoint" ELSE "Disjoint"

\* mutation of constant_index_conflict: the smaller of the two minimum
\* lengths is taken
constant_index_conflict_min(e1, e2) ==
    IF e1.from_end = e2.from_end
    THEN IF e1.offset = e2.offset THEN "EqualOrDisjoint" ELSE "Disjoint"
    ELSE LET offset_from_begin == IF e1.from_end THEN e2.offset ELSE e1.offset
             offset_from_end == IF e1.from_end THEN e1.offset ELSE e2.offset
             min_length ==
                IF e1.min_length <= e2.min_length THEN e1.min_length
                ELSE e2.min_length
         IN IF offset_from_end > min_length
            THEN "Overflow"
            ELSE IF offset_from_begin >= min_length - offset_from_end
                 THEN "EqualOrDisjoint" ELSE "Disjoint"

\* the (ConstantIndex, ConstantIndex) arms of place_projection_conflict
constant_index_conflict(e1, e2) ==
    IF e1.from_end = e2.from_end
    THEN IF e1.offset = e2.offset THEN "EqualOrDisjoint" ELSE "Disjoint"
    ELSE LET offset_from_begin == IF e1.from_end THEN e2.offset ELSE e1.offset
             offset_from_end == IF e1.from_end THEN e1.offset ELSE e2.offset
             min_length ==
                IF e1.min_length >= e2.min_length THEN e1.min_length
                ELSE e2.min_length
         IN IF offset_from_end > min_length
            THEN \* the u32 subtraction min_length - offset_from_end underflows
                 "Overflow"
            ELSE IF offset_from_begin >= min_length - offset_from_end
                 THEN "EqualOrDisjoint" ELSE "Disjoint"

\* mutation of constant_index_subslice_conflict: the first element of the
\* subslice is left out
constant_index_subslice_conflict_strict(e1, e2) ==
    LET index == IF e1.tag = "ConstantIndex" THEN e1 ELSE e2
        subslice == IF e1.tag = "Subslice" THEN e1 ELSE e2
    IN IF ~index.from_end
       THEN IF index.offset > subslice.from THEN "EqualOrDisjoint" ELSE "Disjoint"
       ELSE IF index.offset > subslice.to THEN "EqualOrDisjoint" ELSE "Disjoint"

\* the (ConstantIndex, Subslice) and (Subslice, ConstantIndex) arms of
\* place_projection_conflict
constant_index_subslice_conflict(e1, e2) ==
    LET index == IF e1.tag = "ConstantIndex" THEN e1 ELSE e2
        subslice == IF e1.tag = "Subslice" THEN e1 ELSE e2
    IN IF ~index.from_end
       THEN IF index.offset >= subslice.from THEN "EqualOrDisjoint" ELSE "Disjoint"
       ELSE IF index.offset > subslice.to THEN "EqualOrDisjoint" ELSE "Disjoint"

\* pi1, pi2: projections (a base place type and an element)
place_projection_conflict(base_ty1, e1, e2, b) ==
    CASE e1.tag = "Deref" /\ e2.tag = "Deref" -> "EqualOrDisjoint"
      [] e1.tag = "Field" /\ e2.tag = "Field" -> field_conflict(base_ty1.ty, e1.f, e2.f)
      [] e1.tag = "Downcast" /\ e2.tag = "Downcast" ->
            IF e1.variant = e2.variant THEN "EqualOrDisjoint" ELSE "Disjoint"
      [] \/ e1.tag = "Index" /\ e2.tag \in {"Index", "ConstantIndex", "Subslice"}
         \/ e1.tag \in {"ConstantIndex", "Subslice"} /\ e2.tag = "Index" ->
            index_conflict(b)
      [] e1.tag = "ConstantIndex" /\ e2.tag = "ConstantIndex" ->
            constant_index_conflict(e1, e2)
      [] \/ e1.tag = "ConstantIndex" /\ e2.tag = "Subslice"
         \/ e1.tag = "Subslice" /\ e2.tag = "ConstantIndex" ->
            constant_index_subslice_conflict(e1, e2)
      [] e1.tag = "Subslice" /\ e2.tag = "Subslice" -> "EqualOrDisjoint"
      [] OTHER -> "Mismatched"    \* bug!("mismatched projections in place_element_conflict")

\* mutation of borrow_longer_step: a shallow access looks behind a pointer
borrow_longer_step_behind_ptr(elem, base_ty, acc) ==
    LET t == TypeTable[base_ty.ty]
    IN CASE acc \in {"Shallow(ArrayLength)", "Shallow(ShallowBorrow)"} -> "false"
         [] elem.tag = "Deref" /\ t.sty = "Ref" /\ t.mutbl = "MutImmutable"
                /\ acc # "Shallow(None)" -> "bug"
         [] elem.tag = "Deref" /\ t.sty = "Ref" /\ t.mutbl = "MutMutable"
                /\ acc = "Drop" -> "false"
         [] elem.tag = "Field" /\ t.sty = "Adt" /\ acc = "Drop" ->
                IF t.has_dtor THEN "true" ELSE "recurse"
         [] OTHER -> "recurse"


\* mutation of borrow_longer_step: the destructor of an ADT is not looked at
borrow_longer_step_no_dtor(elem, base_ty, acc) ==
    LET t == TypeTable[base_ty.ty]
    IN CASE acc \in {"Shallow(ArrayLength)", "Shallow(ShallowBorrow)"} -> "false"
         [] elem.tag = "Deref" /\ acc = "Shallow(None)" -> "false"
         [] elem.tag = "Deref" /\ t.sty = "Ref" /\ t.mutbl = "MutImmutable"
                /\ acc # "Shallow(None)" -> "bug"
         [] elem.tag = "Deref" /\ t.sty = "Ref" /\ t.mutbl = "MutMutable"
                /\ acc = "Drop" -> "false"
         [] OTHER -> "recurse"


\* the arm of the match on (elem, base_ty.sty, access) taken when the borrow
\* path is longer than the access path: "false", "true", "bug" or "recurse"
borrow_longer_step(elem, base_ty, acc) ==
    LET t == TypeTable[base_ty.ty]
    IN CASE acc \in {"Shallow(ArrayLength)", "Shallow(ShallowBorrow)"} -> "false"
         [] elem.tag = "Deref" /\ acc = "Shallow(None)" -> "false"
         [] elem.tag = "Deref" /\ t.sty = "Ref" /\ t.mutbl = "MutImmutable"
                /\ acc # "Shallow(None)" -> "bug"
         [] elem.tag = "Deref" /\ t.sty = "Ref" /\ t.mutbl = "MutMutable"
                /\ acc = "Drop" -> "false"
         [] elem.tag = "Field" /\ t.sty = "Adt" /\ acc = "Drop" ->
                IF t.has_dtor THEN "true" ELSE "recurse"
         [] OTHER -> "recurse"

\* mutation of borrow_ran_out: || in the place of &&
borrow_ran_out_or(kind, access_has_next) ==
    IF kind = "Shallow" \/ access_has_next THEN "false" ELSE "true"

\* mutation of borrow_ran_out: a Shallow borrow never conflicts
borrow_ran_out_shallow(kind, access_has_next) ==
    IF kind = "Shallow" THEN "false" ELSE "true"


\* the branch of place_components_conflict taken when the borrow path ran out
borrow_ran_out(kind, access_has_next) ==
    IF kind = "Shallow" /\ access_has_next THEN "false" ELSE "true"

\* the loop of place_components_conflict, i-1 projections of each side consumed
RECURSIVE components_loop(_, _, _, _, _, _)
components_loop(bp, kind, ap, acc, b, i) ==
    IF i <= Len(bp.proj)
    THEN IF i <= Len(ap.proj)
         THEN LET ov == place_projection_conflict(
                            place_ty(bp, i - 1), bp.proj[i], ap.proj[i], b)
              IN CASE ov = "Arbitrary" -> "true"
                   [] ov = "EqualOrDisjoint" -> components_loop(bp, kind, ap, acc, b, i + 1)
                   [] ov = "Disjoint" -> "false"
                   [] OTHER -> "bug"
         ELSE LET step == borrow_longer_step(bp.proj[i], place_ty(bp, i - 1), acc)
              IN IF step = "recurse"
                 THEN components_loop(bp, kind, ap, acc, b, i + 1)
                 ELSE step
    ELSE borrow_ran_out(kind, i <= Len(ap.proj))

place_components_conflict(bp, kind, ap, acc, b) ==
    LET ov == place_base_conflict(bp.base, ap.base)
    IN CASE ov = "Arbitrary" -> "bug"
         [] ov = "EqualOrDisjoint" -> components_loop(bp, kind, ap, acc, b, 1)
         [] ov = "Disjoint" -> "false"

borrow_conflicts_with_place(bp, kind, ap, acc, b) ==
    IF bp.proj = <<>> /\ bp.base.kind = "Local"
        /\ ap.proj = <<>> /\ ap.base.kind = "Local"
    THEN IF bp.base.id = ap.base.id THEN "true" ELSE "false"
    ELSE place_components_conflict(bp, kind, ap, acc, b)

places_conflict(bp, ap, b) ==
    borrow_conflicts_with_place(bp, "Mut", ap, "Deep", b)

\* the conflict analysis is not in use
ConflictIdle ==
    /\ op = "none"
    /\ borrow_place = Place(Local(1), <<>>)
    /\ access_place = Place(Local(1), <<>>)
    /\ borrow_kind = "none"
    /\ access = "none"
    /\ bias = "none"
    /\ result = "pending"

----------------------------------------------------------------------------
(* explain_borrow/find_use.rs: the search for the use that keeps a region  *)
(* live.  A body is its basic blocks; a statement or a terminator is the   *)
(* list of the locals it mentions, in the order the MIR visitor visits     *)
(* them, and the context of a mention is what liveness::categorize makes   *)
(* of it: "Def", "Use", "Drop", or "None" for a context it leaves out.     *)

\* most statements of a body of one block
MaxStmts == 2

\* UseFinder::region_vid, the region the search explains
region_vid == "'a"

\* body.local_decls[local].ty as the free regions of the type:
\* _1: &'a T, _2: (&'a T, &'b T), _3: i32
FindLocalDecls == <<{"'a"}, {"'a", "'b"}, {}>>

Location(block, statement_index) ==
    [block |-> block, statement_index |-> statement_index]

successor_within_block(p) == Location(p.block, p.statement_index + 1)

Mention(local, context) == [local |-> local, context |-> context]

\* a terminator: its successors in order, its unwind target (0 stands for
\* None) and the locals it mentions
Terminator(successors, unwind, mentions) ==
    [successors |-> successors, unwind |-> unwind, mentions |-> mentions]

Return == Terminator(<<>>, 0, <<>>)

Goto(target) == Terminator(<<target>>, 0, <<>>)

SwitchInt(discr, targets) == Terminator(targets, 0, <<Mention(discr, "Use")>>)

\* Drop { location, target, unwind }
DropTerminator(location, target, unwind) ==
    Terminator(IF unwind = 0 THEN <<target>> ELSE <<target, unwind>>,
               unwind, <<Mention(location, "Drop")>>)

\* Call { args: [move arg], destination: Some((destination, target)), cleanup };
\* a destination of 0 is a call that does not return
Call(arg, destination, target, cleanup) ==
    Terminator((IF destination = 0 THEN <<>> ELSE <<target>>)
                    \o (IF cleanup = 0 THEN <<>> ELSE <<cleanup>>),
               cleanup,
               <<Mention(arg, "Use")>>
                    \o (IF destination = 0 THEN <<>>
                        ELSE <<Mention(destination, "Def")>>))

\* the statements of the bodies: a no-op; _3 = *_1; StorageDead(_1);
\* _1 = _2.0; _3 = _3
StatementKinds ==
    { <<>>,
      <<Mention(3, "Def"), Mention(1, "Use")>>,
      <<Mention(1, "Def")>>,
      <<Mention(1, "Def"), Mention(2, "Use")>>,
      <<Mention(3, "Def"), Mention(3, "Use")>> }

BasicBlockData(statements, terminator) ==
    [statements |-> statements, terminator |-> terminator]

Body(basic_blocks) ==
    [basic_blocks |-> basic_blocks, local_decls |-> FindLocalDecls]

RECURSIVE StatementLists(_)
StatementLists(n) ==
    IF n = 0 THEN {<<>>}
    ELSE LET shorter == StatementLists(n - 1)
         IN shorter \cup {Append(s, k) : s \in {t \in shorter : Len(t) = n - 1},
                                         k \in StatementKinds}

\* bodies of one block: it returns, calls a function that does not return,
\* or loops
OneBlockBodies ==
    {Body(<<BasicBlockData(s, t)>>) :
        s \in StatementLists(MaxStmts),
        t \in {Return, Call(1, 0, 0, 0), Goto(1)}}

\* bodies of two blocks of one statement each; the search starts in block 1,
\* block 2 is reached by an ordinary edge or is the cleanup block of block 1
FirstTerminators ==
    {Goto(2), SwitchInt(3, <<2, 1>>), SwitchInt(3, <<1, 2>>),
     DropTerminator(2, 2, 0), DropTerminator(2, 1, 2),
     Call(2, 1, 2, 0), Call(2, 1, 1, 2)}

SecondTerminators(first) ==
    IF first.unwind = 0
    THEN {Return, Goto(1), Goto(2), DropTerminator(1, 1, 0)}
    ELSE {Return, Goto(2)}

TwoBlockBodies ==
    UNION {{Body(<<BasicBlockData(<<s1>>, first), BasicBlockData(<<s2>>, second)>>) :
                s1 \in StatementKinds, s2 \in StatementKinds,
                second \in SecondTerminators(first)} :
           first \in FirstTerminators}

\* bodies of three blocks: block 1 is its terminator alone, a branch to
\* blocks 2 and 3 or a drop of _3 that goes on to block 3 and unwinds to the
\* cleanup block 2
BranchTerminators == {SwitchInt(3, <<2, 3>>), DropTerminator(3, 3, 2)}

ThreeBlockBodies ==
    UNION {{Body(<<BasicBlockData(<<>>, first),
                   BasicBlockData(<<s2>>, second),
                   BasicBlockData(s3, third)>>) :
                s2 \in {<<>>, <<Mention(1, "Def")>>, <<Mention(3, "Def"), Mention(1, "Use")>>},
                second \in IF first.unwind = 0
                           THEN {DropTerminator(1, 3, 0), Goto(3)}
                           ELSE {Return},
                s3 \in {<<<<>>>>, <<<<>>, <<>>>>, <<<<Mention(3, "Def"), Mention(1, "Use")>>>>},
                third \in {Return, DropTerminator(2, 1, 0)}} :
           first \in BranchTerminators}

Bodies == OneBlockBodies \cup TwoBlockBodies \cup ThreeBlockBodies

\* the locations of a body
Points(b) ==
    UNION {{Location(bb, i) : i \in 0..Len(b.basic_blocks[bb].statements)} :
           bb \in 1..Len(b.basic_blocks)}

\* RegionInferenceContext::region_contains over the solution cx, the set of
\* the pairs of a region and a point the region is live at
region_contains_any(cx, r, p) == TRUE

region_contains(cx, r, p) == <<r, p>> \in cx

\* the result of def_use
DefUseNone == [tag |-> "None", local |-> 0]

\* DefUseVisitor::visit_local that leaves out the test of the type
visit_local_any_type(decls, local, context, def_use_result) ==
    CASE context = "Def" -> [tag |-> "Def", local |-> 0]
      [] context = "Use" -> [tag |-> "UseLive", local |-> local]
      [] context = "Drop" -> [tag |-> "UseDrop", local |-> local]
      [] OTHER -> DefUseNone

\* DefUseVisitor::visit_local: def_use_result after the visit of a mention
visit_local(decls, local, context, def_use_result) ==
    LET found_it == region_vid \in decls[local]
    IN IF found_it
       THEN CASE context = "Def" -> [tag |-> "Def", local |-> 0]
              [] context = "Use" -> [tag |-> "UseLive", local |-> local]
              [] context = "Drop" -> [tag |-> "UseDrop", local |-> local]
              [] OTHER -> DefUseNone
       ELSE def_use_result

\* BasicBlockData::visitable
visitable(block_data, statement_index) ==
    IF statement_index < Len(block_data.statements)
    THEN block_data.statements[statement_index + 1]
    ELSE block_data.terminator.mentions

\* thing.apply(location, &mut visitor): the mentions from i on are visited in order
RECURSIVE apply(_, _, _, _)
apply(b, thing, i, def_use_result) ==
    IF i > Len(thing) THEN def_use_result
    ELSE apply(b, thing, i + 1,
               visit_local(b.local_decls, thing[i].local, thing[i].context,
                           def_use_result))

def_use(b, location) ==
    apply(b, visitable(b.basic_blocks[location.block], location.statement_index),
          1, DefUseNone)

\* the first points of all the successors of a terminator, the unwind edge kept
successors_with_unwind(terminator) ==
    [i \in 1..Len(terminator.successors) |-> Location(terminator.successors[i], 0)]


\* the first points of the successors of a terminator, the unwind edge left out
successors_not_unwind(terminator) ==
    LET kept == SelectSeq(terminator.successors, LAMBDA bb : bb # terminator.unwind)
    IN [i \in 1..Len(kept) |-> Location(kept[i], 0)]

\* Option<Cause>; Pending while the search runs
Pending == [tag |-> "Pending", local |-> 0, point |-> Location(0, 0)]

NoCause == [tag |-> "None", local |-> 0, point |-> Location(0, 0)]

LiveVar(local, p) == [tag |-> "LiveVar", local |-> local, point |-> p]

DropVar(local, p) == [tag |-> "DropVar", local |-> local, point |-> p]

\* no search is running
FindIdle ==
    /\ body = Body(<<BasicBlockData(<<>>, Return)>>)
    /\ regioncx = {}
    /\ start_point = Location(1, 0)
    /\ queue = <<>>
    /\ visited = {}
    /\ cause = NoCause

----------------------------------------------------------------------------
(* infer/opaque_types/mod.rs: constrain_opaque_type.  Regions are named by *)
(* strings; a type is the tree the OpaqueTypeOutlivesVisitor walks.        *)

\* most generic parameters of an opaque type
MaxSubsts == 3

\* the free regions the lifetime arguments are drawn from
FreeRegions == {"'a", "'b", "'c"}

ReStatic == "'static"

ReEmpty == "'empty"

\* ty::ReLateBound(_, _)
ReLateBound == "'^0"

\* a generic parameter with the value the substs give it: param.kind and
\* opaque_defn.substs.region_at(param.index)
LifetimeParam(region) == [kind |-> "Lifetime", region |-> region]

TypeParam == [kind |-> "Type", region |-> "none"]

RECURSIVE SubstsUpTo(_)
SubstsUpTo(n) ==
    IF n = 0 THEN {<<>>}
    ELSE LET shorter == SubstsUpTo(n - 1)
         IN shorter \cup
            {Append(s, p) : s \in {t \in shorter : Len(t) = n - 1},
                            p \in {LifetimeParam(r) : r \in FreeRegions} \cup {TypeParam}}

\* FreeRegionRelations: the pairs (a, b) with a <= b, reflexive and transitive
FreeRegionRelations ==
    {rel \in SUBSET (FreeRegions \X FreeRegions) :
        /\ \A r \in FreeRegions : <<r, r>> \in rel
        /\ \A x \in rel, y \in rel : x[2] = y[1] => <<x[1], y[2]>> \in rel}

sub_free_regions(rel, a, b) == <<a, b>> \in rel

\* concrete types
TyUint == [sty |-> "Uint"]

TyRef(region, ty) == [sty |-> "Ref", region |-> region, ty |-> ty]

TyTuple(tys) == [sty |-> "Tuple", tys |-> tys]

\* a function pointer: the Binder over its signature, here the argument type
TyFnPtr(binder) == [sty |-> "FnPtr", binder |-> binder]

\* a closure: the lifetime parameters of the enclosing item among its substs,
\* the types of its upvars and its signature
TyClosure(parent_regions, upvar_tys, closure_sig_ty) ==
    [sty |-> "Closure", parent_regions |-> parent_regions,
     upvar_tys |-> upvar_tys, closure_sig_ty |-> closure_sig_ty]

\* u32; &'a u32; (&'a u32, &'b u32); for<'x> fn(&'x &'c u32); &'static u32;
\* a closure of an item with parameter 'a that captures a &'b u32
ConcreteTypes ==
    { TyUint,
      TyRef("'a", TyUint),
      TyTuple(<<TyRef("'a", TyUint), TyRef("'b", TyUint)>>),
      TyFnPtr(TyRef(ReLateBound, TyRef("'c", TyUint))),
      TyRef(ReStatic, TyUint),
      TyClosure(<<"'a">>, <<TyRef("'b", TyUint)>>, TyFnPtr(TyRef(ReLateBound, TyUint))) }

\* ty.flags.intersects(TypeFlags::HAS_FREE_REGIONS)
RECURSIVE has_free_regions(_)
has_free_regions(ty) ==
    CASE ty.sty = "Uint" -> FALSE
      [] ty.sty = "Ref" -> ty.region # ReLateBound \/ has_free_regions(ty.ty)
      [] ty.sty = "Tuple" -> \E i \in DOMAIN ty.tys : has_free_regions(ty.tys[i])
      [] ty.sty = "FnPtr" -> has_free_regions(ty.binder)
      [] ty.sty = "Closure" ->
            \/ ty.parent_regions # <<>>
            \/ \E i \in DOMAIN ty.upvar_tys : has_free_regions(ty.upvar_tys[i])
            \/ has_free_regions(ty.closure_sig_ty)

\* OpaqueTypeOutlivesVisitor::visit_region: the sub_regions calls made for r
visit_region(least_region, r) ==
    IF r = ReLateBound THEN <<>> ELSE <<<<least_region, r>>>>

\* OpaqueTypeOutlivesVisitor::visit_ty and the visit of a list of types: the
\* sub_regions calls made, in order
RECURSIVE visit_ty(_, _)
RECURSIVE visit_tys(_, _, _)
visit_ty(least_region, ty) ==
    IF ~has_free_regions(ty) THEN <<>>
    ELSE CASE ty.sty = "Closure" ->
                visit_tys(least_region, ty.upvar_tys, 1)
                    \o visit_ty(least_region, ty.closure_sig_ty)
           [] ty.sty = "Ref" ->
                visit_region(least_region, ty.region) \o visit_ty(least_region, ty.ty)
           [] ty.sty = "Tuple" -> visit_tys(least_region, ty.tys, 1)
           [] ty.sty = "FnPtr" -> visit_ty(least_region, ty.binder)
           [] OTHER -> <<>>

visit_tys(least_region, tys, i) ==
    IF i > Len(tys) THEN <<>>
    ELSE visit_ty(least_region, tys[i]) \o visit_tys(least_region, tys, i + 1)

\* the visits of the concrete type with each required region bound
RECURSIVE visit_with_bounds(_, _, _)
visit_with_bounds(bounds, concrete_ty, i) ==
    IF i > Len(bounds) THEN <<>>
    ELSE visit_ty(bounds[i], concrete_ty)
            \o visit_with_bounds(bounds, concrete_ty, i + 1)

\* the diagnostic "ambiguous lifetime bound"
AmbiguousLifetimeBound(lr, subst_arg) ==
    [msg |-> "ambiguous lifetime bound", lr |-> lr, subst_arg |-> subst_arg]

\* the outcome of the search for the least region
LeastRegion(least_region, errors) == [least_region |-> least_region, errors |-> errors]

\* a search that keeps the current region when two regions are not related
RECURSIVE least_region_loop_keep(_, _, _, _)
least_region_loop_keep(rel, substs, i, least_region) ==
    IF i > Len(substs) THEN LeastRegion(least_region, <<>>)
    ELSE IF substs[i].kind # "Lifetime"
         THEN least_region_loop_keep(rel, substs, i + 1, least_region)
         ELSE IF least_region = "None"
              THEN least_region_loop_keep(rel, substs, i + 1, substs[i].region)
              ELSE IF sub_free_regions(rel, substs[i].region, least_region)
                   THEN least_region_loop_keep(rel, substs, i + 1, substs[i].region)
                   ELSE least_region_loop_keep(rel, substs, i + 1, least_region)

\* the loop over abstract_type_generics.params from parameter i on;
\* least_region is "None" before the first lifetime argument
RECURSIVE least_region_loop(_, _, _, _)
least_region_loop(rel, substs, i, least_region) ==
    IF i > Len(substs) THEN LeastRegion(least_region, <<>>)
    ELSE IF substs[i].kind # "Lifetime"
         THEN least_region_loop(rel, substs, i + 1, least_region)
         ELSE LET subst_arg == substs[i].region
              IN IF least_region = "None"
                 THEN least_region_loop(rel, substs, i + 1, subst_arg)
                 ELSE IF sub_free_regions(rel, least_region, subst_arg)
                      THEN least_region_loop(rel, substs, i + 1, least_region)
                      ELSE IF sub_free_regions(rel, subst_arg, least_region)
                           THEN least_region_loop(rel, substs, i + 1, subst_arg)
                           ELSE LeastRegion(ReEmpty,
                                    <<AmbiguousLifetimeBound(least_region, subst_arg)>>)

\* least_region.unwrap_or(tcx.lifetimes.re_static)
unwrap_or_static(least_region) ==
    IF least_region = "None" THEN ReStatic ELSE least_region

OpaqueTypeDecl(substs, concrete_ty, has_required_region_bounds) ==
    [substs |-> substs, concrete_ty |-> concrete_ty,
     has_required_region_bounds |-> has_required_region_bounds]

\* constrain_opaque_type is not in use
OpaqueIdle ==
    /\ opaque_defn = OpaqueTypeDecl(<<>>, TyUint, FALSE)
    /\ required_region_bounds = <<>>
    /\ free_region_relations = {}
    /\ ot_least_region = "None"
    /\ ot_errors = <<>>
    /\ ot_sub_regions = <<>>
    /\ ot_pc = "idle"

----------------------------------------------------------------------------
(* infer/glb.rs: the Glb type relation.  The structural relation of two    *)
(* types (ty/relate.rs, infer/lattice.rs), the Lub and Equate relations    *)
(* and the region constraint store are modelled after their specification. *)

\* deepest nesting of the types related
MaxTyDepth == 2

GlbRegions == {"'a", "'b", ReStatic}

Variances == {"Covariant", "Contravariant", "Invariant", "Bivariant"}

\* u32
GUint == [sty |-> "Uint"]

\* an ADT with one lifetime parameter of the given variance
GAdt(variance, region) == [sty |-> "Adt", variance |-> variance, region |-> region]

\* &'r T and &'r mut T
GRef(region, ty) == [sty |-> "Ref", region |-> region, ty |-> ty]

GRefMut(region, ty) == [sty |-> "RefMut", region |-> region, ty |-> ty]

\* [T; len]
GArray(ty, len) == [sty |-> "Array", ty |-> ty, len |-> len]

\* for<..> fn(T): a Binder over a signature with argument T
GFnPtr(arg) == [sty |-> "FnPtr", arg |-> arg]

ArrayLens == {"1", "2"}

RECURSIVE GlbTypes(_)
GlbTypes(depth) ==
    IF depth = 0
    THEN {GUint} \cup {GAdt(v, r) : v \in Variances, r \in GlbRegions}
    ELSE LET inner == GlbTypes(depth - 1)
         IN inner
            \cup {GRef(r, t) : r \in GlbRegions, t \in inner}
            \cup {GRefMut(r, t) : r \in GlbRegions, t \in inner}
            \cup {GArray(t, n) : t \in inner, n \in ArrayLens}
            \cup {GFnPtr(t) : t \in inner}

\* RelateResult
Ok(val) == [ok |-> TRUE, val |-> val]

Err(e) == [ok |-> FALSE, val |-> e]

\* RegionConstraintCollector::glb_regions and lub_regions: two different
\* regions other than 'static get a fresh region variable
glb_regions(a, b) ==
    IF a = ReStatic THEN b
    ELSE IF b = ReStatic THEN a
    ELSE IF a = b THEN a ELSE "'?glb"

lub_regions(a, b) ==
    IF a = ReStatic \/ b = ReStatic THEN ReStatic
    ELSE IF a = b THEN a ELSE "'?lub"

\* Glb::relate_with_variance: the relation a position of the given variance
\* is related with; "Bivariant" stands for Ok(a.clone())
Glb_relate_with_variance(variance) ==
    CASE variance = "Invariant" -> "Equate"
      [] variance = "Covariant" -> "Glb"
      [] variance = "Bivariant" -> "Bivariant"
      [] variance = "Contravariant" -> "Lub"

\* Lub::relate_with_variance, the dual
Lub_relate_with_variance(variance) ==
    CASE variance = "Invariant" -> "Equate"
      [] variance = "Covariant" -> "Lub"
      [] variance = "Bivariant" -> "Bivariant"
      [] variance = "Contravariant" -> "Glb"

\* relate_with_variance of the relation rel
relate_with_variance(rel, variance) ==
    CASE rel = "Glb" -> Glb_relate_with_variance(variance)
      [] rel = "Lub" -> Lub_relate_with_variance(variance)
      [] OTHER -> "Equate"

\* Glb::regions
Glb_regions(a, b) == Ok(glb_regions(a, b))

\* regions of the relation rel; Equate makes the two regions equal and
\* returns the first
regions(rel, a, b) ==
    CASE rel = "Glb" -> Glb_regions(a, b)
      [] rel = "Lub" -> Ok(lub_regions(a, b))
      [] OTHER -> Ok(a)

\* InferCtxt::super_combine_consts of two different constant values
super_combine_consts(a, b) == Err("ConstMismatch")

\* a consts that never takes two constants as equal
Glb_consts_unequal(a, b) == super_combine_consts(a, b)

\* Glb::consts
Glb_consts(a, b) ==
    IF a = b THEN Ok(a) ELSE super_combine_consts(a, b)

\* a region in a position of the given variance, related by rel
relate_region(rel, variance, a, b) ==
    IF relate_with_variance(rel, variance) = "Bivariant" THEN Ok(a)
    ELSE regions(relate_with_variance(rel, variance), a, b)

\* Glb::binders: the binders are related invariantly and the first is
\* returned; inner is the result of that relation
Glb_binders(a, inner) ==
    IF inner.ok THEN Ok(a) ELSE inner

\* the structural relation of two types by rel, and a type in a position of
\* the given variance
RECURSIVE relate_tys(_, _, _)
RECURSIVE relate_ty_with_variance(_, _, _, _)
relate_tys(rel, a, b) ==
    CASE a.sty = "Uint" /\ b.sty = "Uint" -> Ok(a)
      [] a.sty = "Adt" /\ b.sty = "Adt" /\ a.variance = b.variance ->
            LET r == relate_region(rel, a.variance, a.region, b.region)
            IN IF r.ok THEN Ok(GAdt(a.variance, r.val)) ELSE r
      [] a.sty = "Ref" /\ b.sty = "Ref" ->
            LET r == relate_region(rel, "Contravariant", a.region, b.region)
                t == relate_ty_with_variance(rel, "Covariant", a.ty, b.ty)
            IN IF ~r.ok THEN r ELSE IF ~t.ok THEN t ELSE Ok(GRef(r.val, t.val))
      [] a.sty = "RefMut" /\ b.sty = "RefMut" ->
            LET r == relate_region(rel, "Contravariant", a.region, b.region)
                t == relate_ty_with_variance(rel, "Invariant", a.ty, b.ty)
            IN IF ~r.ok THEN r ELSE IF ~t.ok THEN t ELSE Ok(GRefMut(r.val, t.val))
      [] a.sty = "Array" /\ b.sty = "Array" ->
            LET t == relate_tys(rel, a.ty, b.ty)
                n == IF rel = "Glb" THEN Glb_consts(a.len, b.len)
                     ELSE IF a.len = b.len THEN Ok(a.len)
                     ELSE super_combine_consts(a.len, b.len)
            IN IF ~t.ok THEN t ELSE IF ~n.ok THEN n ELSE Ok(GArray(t.val, n.val))
      [] a.sty = "FnPtr" /\ b.sty = "FnPtr" ->
            IF rel = "Glb"
            THEN Glb_binders(a, relate_ty_with_variance("Equate", "Contravariant", a.arg, b.arg))
            ELSE LET inner == relate_ty_with_variance("Equate", "Contravariant", a.arg, b.arg)
                 IN IF inner.ok THEN Ok(a) ELSE inner
      [] OTHER -> Err("Sorts")

relate_ty_with_variance(rel, variance, a, b) ==
    IF relate_with_variance(rel, variance) = "Bivariant" THEN Ok(a)
    ELSE relate_tys(relate_with_variance(rel, variance), a, b)

\* Glb::tys
Glb_tys(a, b) == relate_tys("Glb", a, b)

\* the Glb relation is not in use
GlbIdle ==
    /\ glb_a = GUint
    /\ glb_b = GUint
    /\ glb_result = Err("none")
    /\ glb_pc = "idle"

----------------------------------------------------------------------------
(* nll/type_check/constraint_conversion.rs: the lowering of query region   *)
(* constraints into outlives constraints and type tests.  TypeOutlives     *)
(* (infer/outlives/obligations.rs) and the tables of the universal and the *)
(* placeholder regions are modelled after their specification.            *)

\* most calls on one ConstraintConversion
MaxCalls == 2

\* the regions of the constraints: two universal regions, a placeholder, a
\* late-bound region and a free region the universal regions do not hold
UniversalRegionNames == {"'a", "'b"}

RePlaceholder == "'!0"

UnknownRegion == "'x"

ConvRegions == UniversalRegionNames \cup {RePlaceholder, ReLateBound, UnknownRegion}

\* UnpackedKind of k1
KindLifetime(r1) == [kind |-> "Lifetime", r1 |-> r1, t1 |-> <<>>]

KindType(t1) == [kind |-> "Type", r1 |-> "none", t1 |-> t1]

KindConst == [kind |-> "Const", r1 |-> "none", t1 |-> <<>>]

\* the components of a type, as TypeOutlives sees them
ComponentRegion(r) == [component |-> "Region", region |-> r, param |-> "none"]

ComponentParam(p) == [component |-> "Param", region |-> "none", param |-> p]

\* T; &'b T; &'^0 u32; &'!0 u32
ConvTypes ==
    { <<ComponentParam("T")>>,
      <<ComponentRegion("'b"), ComponentParam("T")>>,
      <<ComponentRegion(ReLateBound)>>,
      <<ComponentRegion(RePlaceholder)>> }

\* QueryRegionConstraint: Binder<OutlivesPredicate(k1, r2)>
QueryRegionConstraint(k1, r2) == [k1 |-> k1, r2 |-> r2]

QueryRegionConstraints ==
    {QueryRegionConstraint(KindLifetime(r1), r2) : r1 \in ConvRegions, r2 \in ConvRegions}
        \cup {QueryRegionConstraint(KindType(t1), r2) :
                t1 \in ConvTypes, r2 \in {"'a", RePlaceholder, ReLateBound}}
        \cup {QueryRegionConstraint(KindConst, "'a")}

\* the batches given to convert_all
QueryBatches ==
    {<<>>}
        \cup {<<c, d>> :
                c \in {QueryRegionConstraint(KindLifetime("'a"), "'b"),
                       QueryRegionConstraint(KindType(<<ComponentParam("T")>>), "'a")},
                d \in {QueryRegionConstraint(KindLifetime("'a"), "'b"),
                       QueryRegionConstraint(KindLifetime(ReLateBound), "'a"),
                       QueryRegionConstraint(KindConst, "'a")}}

\* a query constraint that is taken to hold no bound variables
no_bound_vars_always(query_constraint) == TRUE

\* query_constraint.no_bound_vars() is Some
no_bound_vars(query_constraint) ==
    /\ query_constraint.r2 # ReLateBound
    /\ query_constraint.k1.r1 # ReLateBound
    /\ \A i \in DOMAIN query_constraint.k1.t1 :
            query_constraint.k1.t1[i].region # ReLateBound

\* MirTypeckRegionConstraints
MirTypeckRegionConstraints(placeholder_indices, outlives, tests) ==
    [placeholder_indices |-> placeholder_indices,
     outlives_constraints |-> outlives,
     type_tests |-> tests]

OutlivesConstraint(locs, cat, sub, sup) ==
    [locations |-> locs, category |-> cat, sub |-> sub, sup |-> sup]

TypeTest(generic_kind, lower_bound, locs, verify_bound) ==
    [generic_kind |-> generic_kind, lower_bound |-> lower_bound,
     locations |-> locs, verify_bound |-> verify_bound]

\* the converter in the middle of a call: the constraints, "ok" or the bug!
\* that ended the call, the number of to_region_vid calls made, and the
\* RegionVid the last of them returned
Conv(cs, status, vid_calls, vid) ==
    [constraints |-> cs, status |-> status, vid_calls |-> vid_calls, vid |-> vid]

BugBoundVars == "bug: query_constraint contained bound vars"

BugCannotConvert == "bug: cannot convert to a region vid"

\* UniversalRegions::to_region_vid: the index of a universal region
UniversalIndices == [r \in UniversalRegionNames |-> IF r = "'a" THEN 1 ELSE 2]

\* the index of placeholder in the sequence indices, 0 if it is not there
RECURSIVE lookup_placeholder(_, _, _)
lookup_placeholder(indices, placeholder, i) ==
    IF i > Len(indices) THEN 0
    ELSE IF indices[i] = placeholder THEN i
    ELSE lookup_placeholder(indices, placeholder, i + 1)

\* ConstraintConversion::to_region_vid
to_region_vid(c, r) ==
    IF c.status # "ok" THEN c
    ELSE IF r = RePlaceholder
    THEN LET known == lookup_placeholder(c.constraints.placeholder_indices, r, 1)
             indices == IF known = 0
                        THEN Append(c.constraints.placeholder_indices, r)
                        ELSE c.constraints.placeholder_indices
         IN Conv([c.constraints EXCEPT !.placeholder_indices = indices], "ok",
                 c.vid_calls + 1,
                 Cardinality(UniversalRegionNames) + lookup_placeholder(indices, r, 1))
    ELSE IF r \in UniversalRegionNames
    THEN Conv(c.constraints, "ok", c.vid_calls + 1, UniversalIndices[r])
    ELSE Conv(c.constraints, BugCannotConvert, c.vid_calls + 1, 0)

\* an add_outlives that does not push an edge the list already holds
add_outlives_dedup(c, sup, sub) ==
    IF c.status # "ok" THEN c
    ELSE IF \E i \in DOMAIN c.constraints.outlives_constraints :
                c.constraints.outlives_constraints[i]
                    = OutlivesConstraint(locations, category, sub, sup)
    THEN c
    ELSE [c EXCEPT !.constraints.outlives_constraints =
                Append(@, OutlivesConstraint(locations, category, sub, sup))]

\* ConstraintConversion::add_outlives
add_outlives(c, sup, sub) ==
    IF c.status # "ok" THEN c
    ELSE [c EXCEPT !.constraints.outlives_constraints =
                Append(@, OutlivesConstraint(locations, category, sub, sup))]

\* ConstraintConversion::add_type_test
add_type_test(c, type_test) ==
    IF c.status # "ok" THEN c
    ELSE [c EXCEPT !.constraints.type_tests = Append(@, type_test)]

\* mutation of push_sub_region_constraint: the edge is pushed the other way
push_sub_region_constraint_swapped(c, a, b) ==
    LET with_b == to_region_vid(c, b)
        with_a == to_region_vid(with_b, a)
    IN add_outlives(with_a, with_a.vid, with_b.vid)


\* TypeOutlivesDelegate::push_sub_region_constraint
push_sub_region_constraint(c, a, b) ==
    LET with_b == to_region_vid(c, b)
        with_a == to_region_vid(with_b, a)
    IN add_outlives(with_a, with_b.vid, with_a.vid)

\* TypeOutlivesDelegate::push_verify, with verify_to_type_test
push_verify(c, kind, a, bound) ==
    LET with_a == to_region_vid(c, a)
    IN add_type_test(with_a, TypeTest(kind, with_a.vid, locations, bound))

\* TypeOutlives::type_must_outlive: the components of t1 from i on must
\* outlive r2
RECURSIVE type_must_outlive(_, _, _, _)
type_must_outlive(c, t1, r2, i) ==
    IF i > Len(t1) \/ c.status # "ok" THEN c
    ELSE type_must_outlive(
            IF t1[i].component = "Region"
            THEN push_sub_region_constraint(c, r2, t1[i].region)
            ELSE push_verify(c, t1[i].param, r2, "AnyBound"),
            t1, r2, i + 1)

\* ConstraintConversion::convert
convert(c, query_constraint) ==
    IF c.status # "ok" THEN c
    ELSE IF ~no_bound_vars(query_constraint)
    THEN [c EXCEPT !.status = BugBoundVars]
    ELSE CASE query_constraint.k1.kind = "Lifetime" ->
                LET with_r1 == to_region_vid(c, query_constraint.k1.r1)
                    with_r2 == to_region_vid(with_r1, query_constraint.r2)
                IN add_outlives(with_r2, with_r1.vid, with_r2.vid)
           [] query_constraint.k1.kind = "Type" ->
                type_must_outlive(c, query_constraint.k1.t1, query_constraint.r2, 1)
           [] OTHER -> c

\* ConstraintConversion::convert_all, from constraint i on
RECURSIVE convert_all(_, _, _)
convert_all(c, query_constraints, i) ==
    IF i > Len(query_constraints) THEN c
    ELSE convert_all(convert(c, query_constraints[i]), query_constraints, i + 1)

\* no conversion is in use
ConvIdle ==
    /\ constraints = MirTypeckRegionConstraints(<<>>, <<>>, <<>>)
    /\ locations = "none"
    /\ category = "none"
    /\ cc_status = "idle"
    /\ cc_calls = <<>>
    /\ cc_before = MirTypeckRegionConstraints(<<>>, <<>>, <<>>)
    /\ cc_vid_calls = 0

----------------------------------------------------------------------------
(* places_conflict.rs: place_projection_conflict on the projections out of *)
(* an array or slice                                                       *)

\* largest min_length of a ConstantIndex
MaxIndex == 3

\* the projections out of an array or slice: a[i], the elements of the
\* patterns [.., x, ..] counted from the start (offset < min_length) and
\* from the end (1 <= offset <= min_length), and the subslices
ArrayProjections ==
    {Index(7)}
        \cup {ConstantIndex(o, m, FALSE) : o \in 0..(MaxIndex - 1), m \in 1..MaxIndex}
        \cup {ConstantIndex(o, m, TRUE) : o \in 1..MaxIndex, m \in 1..MaxIndex}
        \cup {Subslice(from, to) : from \in 0..(MaxIndex - 1), to \in 0..(MaxIndex - 1)}

\* the offset of a ConstantIndex lies within its min_length
ValidProjection(elem) ==
    elem.tag = "ConstantIndex" =>
        IF elem.from_end
        THEN 1 <= elem.offset /\ elem.offset <= elem.min_length
        ELSE elem.offset < elem.min_length

\* no comparison of projections is in use
ProjIdle ==
    /\ pi_elem1 = Deref
    /\ pi_elem2 = Deref
    /\ pi_bias = "none"
    /\ pi_overlap = "idle"

----------------------------------------------------------------------------
(* move_paths/mod.rs: the arena of move paths and the lookup tables.  The  *)
(* builder (move_paths/builder.rs) and the abstract domain of projections  *)
(* (move_paths/abs_domain.rs) are modelled after their specification.      *)

\* ProjectionElem::lift: the operand of an Index and the type of a Field are
\* abstracted away, offsets and variants are kept
lift(elem) ==
    IF elem.tag = "Index" THEN [tag |-> "Index"] ELSE elem

\* a MovePath; 0 stands for None in the three links
MovePath(next_sibling, first_child, parent, place) ==
    [next_sibling |-> next_sibling, first_child |-> first_child,
     parent |-> parent, place |-> place]

\* MovePathLookup { locals, projections }
MovePathLookup(locals, projections) ==
    [locals |-> locals, projections |-> projections]

\* LookupResult: Exact(path), Parent(Some(path)), Parent(None) as Parent with 0
Exact(path) == [tag |-> "Exact", path |-> path]
Parent(path) == [tag |-> "Parent", path |-> path]

\* mutation of find_from: a missing projection is skipped, the walk goes on
RECURSIVE find_from_skip(_, _, _, _)
find_from_skip(lookup, place, result_path, i) ==
    IF i > Len(place.proj) THEN Exact(result_path)
    ELSE IF <<result_path, lift(place.proj[i])>> \in DOMAIN lookup.projections
         THEN find_from_skip(lookup, place,
                  lookup.projections[<<result_path, lift(place.proj[i])>>], i + 1)
         ELSE find_from_skip(lookup, place, result_path, i + 1)

\* mutation of find_from: the path found for a projection is not kept
RECURSIVE find_from_stale(_, _, _, _)
find_from_stale(lookup, place, result_path, i) ==
    IF i > Len(place.proj) THEN Exact(result_path)
    ELSE IF <<result_path, lift(place.proj[i])>> \in DOMAIN lookup.projections
         THEN find_from_stale(lookup, place, result_path, i + 1)
         ELSE Parent(result_path)

\* the loop of MovePathLookup::find over the projections from the i-th on
RECURSIVE find_from(_, _, _, _)
find_from(lookup, place, result_path, i) ==
    IF i > Len(place.proj) THEN Exact(result_path)
    ELSE IF <<result_path, lift(place.proj[i])>> \in DOMAIN lookup.projections
         THEN find_from(lookup, place,
                  lookup.projections[<<result_path, lift(place.proj[i])>>], i + 1)
         ELSE Parent(result_path)

\* MovePathLookup::find
find(lookup, place) ==
    IF place.base.kind = "Local"
    THEN find_from(lookup, place, lookup.locals[place.base.id], 1)
    ELSE Parent(0)

\* MoveDataBuilder::new_move_path: the new node goes to the end of the arena
\* and to the head of the list of children of its parent
new_move_path(paths, parent, place) ==
    LET idx == Len(paths) + 1
        node == MovePath(IF parent = 0 THEN 0 ELSE paths[parent].first_child,
                         0, parent, place)
        linked == IF parent = 0 THEN paths
                  ELSE [paths EXCEPT ![parent].first_child = idx]
    IN Append(linked, node)

\* the outcome of a registration: Ok(path), or the error with the path
\* UnionMove carries, and the move data after it
Registered(res, path, paths, lookup) ==
    [res |-> res, path |-> path, paths |-> paths, lookup |-> lookup]

\* Gatherer::move_path_for on the prefix of place that keeps n projections
RECURSIVE move_path_for(_, _, _, _)
move_path_for(paths, lookup, place, n) ==
    IF n = 0
    THEN IF place.base.kind = "Local"
         THEN Registered("Ok", lookup.locals[place.base.id], paths, lookup)
         ELSE Registered("Static", 0, paths, lookup)
    ELSE LET base == move_path_for(paths, lookup, place, n - 1)
             t == TypeTable[place_ty(place, n - 1).ty]
             key == <<base.path, lift(place.proj[n])>>
         IN IF base.res # "Ok" THEN base
            ELSE CASE t.sty \in {"Ref", "RawPtr"} ->
                        Registered("BorrowedContent", 0, base.paths, base.lookup)
                   [] t.sty = "Adt" /\ t.has_dtor ->
                        Registered("InteriorOfTypeWithDestructor", 0,
                                   base.paths, base.lookup)
                   [] t.sty = "Adt" /\ ~t.has_dtor /\ t.is_union ->
                        Registered("UnionMove", base.path, base.paths, base.lookup)
                   [] t.sty = "Array" ->
                        Registered("InteriorOfSliceOrArray", 0, base.paths, base.lookup)
                   [] OTHER ->
                        IF key \in DOMAIN base.lookup.projections
                        THEN Registered("Ok", base.lookup.projections[key],
                                        base.paths, base.lookup)
                        ELSE Registered("Ok", Len(base.paths) + 1,
                                 new_move_path(base.paths, base.path,
                                     Place(place.base, SubSeq(place.proj, 1, n))),
                                 MovePathLookup(base.lookup.locals,
                                     base.lookup.projections
                                        @@ (key :> (Len(base.paths) + 1))))

\* MoveDataBuilder::new: one move path per local, in the order of the locals
RECURSIVE local_paths(_)
local_paths(n) ==
    IF n = 0 THEN <<>>
    ELSE new_move_path(local_paths(n - 1), 0, Place(Local(n), <<>>))

EmptyMap == [k \in {} |-> 0]

MoveInit ==
    /\ move_paths = local_paths(Cardinality(Locals))
    /\ rev_lookup = MovePathLookup([l \in Locals |-> l], EmptyMap)
    /\ mp_op = "none"
    /\ mp_place = Place(Local(1), <<>>)
    /\ mp_result = [tag |-> "none", path |-> 0]

\* the move data is not in use
MoveIdle ==
    /\ move_paths = <<>>
    /\ rev_lookup = MovePathLookup(EmptyMap, EmptyMap)
    /\ mp_op = "none"
    /\ mp_place = Place(Local(1), <<>>)
    /\ mp_result = [tag |-> "none", path |-> 0]

\* the places the statements of the body name and later passes look up
MovePlaces ==
    {p \in Places : p.base \in {Local(1), Local(2), Local(6), Static(1)}}
        \cup {p \in Places : p.base = Local(3) /\ Len(p.proj) <= 1}

\* a statement of the body names place as moved, dropped or initialized; the
\* move data is built before it is queried
MovePathFor(place) ==
    /\ mp_op # "find"
    /\ LET r == move_path_for(move_paths, rev_lookup, place, Len(place.proj))
       IN /\ Len(r.paths) <= Cardinality(Locals) + MaxNewPaths
          /\ move_paths' = r.paths
          /\ rev_lookup' = r.lookup
          /\ mp_result' = [tag |-> r.res, path |-> r.path]
    /\ mp_op' = "move_path_for"
    /\ mp_place' = place
    /\ UNCHANGED <<conflict_vars, find_vars, opaque_vars, glb_vars, conv_vars, proj_vars>>

\* a later pass looks place up
Find(place) ==
    /\ mp_op # "find"
    /\ mp_op' = "find"
    /\ mp_place' = place
    /\ mp_result' = find(rev_lookup, place)
    /\ UNCHANGED <<move_paths, rev_lookup, conflict_vars, find_vars, opaque_vars, glb_vars, conv_vars, proj_vars>>

MoveNext ==
    \/ \E place \in MovePlaces : MovePathFor(place)
    \/ \E place \in MovePlaces : Find(place)

InitMove == MoveInit /\ ConflictIdle /\ FindIdle /\ OpaqueIdle /\ GlbIdle /\ ConvIdle /\ ProjIdle

SpecMove == InitMove /\ [][MoveNext]_vars

----------------------------------------------------------------------------
(* The conflict queries as a state machine: the two places are the inputs  *)
(* of a run, a call fixes the borrow kind, the access depth and the bias   *)

ConflictInit ==
    /\ op = "none"
    /\ borrow_place \in Places
    /\ access_place \in Places
    /\ borrow_kind = "none"
    /\ access = "none"
    /\ bias = "none"
    /\ result = "pending"

PlacesConflict(b) ==
    /\ op = "none"
    /\ op' = "places_conflict"
    /\ borrow_kind' = "Mut"
    /\ access' = "Deep"
    /\ bias' = b
    /\ result' = places_conflict(borrow_place, access_place, b)
    /\ UNCHANGED <<borrow_place, access_place, move_vars, find_vars, opaque_vars, glb_vars, conv_vars, proj_vars>>

BorrowConflictsWithPlace(kind, acc, b) ==
    /\ op = "none"
    /\ op' = "borrow_conflicts_with_place"
    /\ borrow_kind' = kind
    /\ access' = acc
    /\ bias' = b
    /\ result' = borrow_conflicts_with_place(borrow_place, kind, access_place, acc, b)
    /\ UNCHANGED <<borrow_place, access_place, move_vars, find_vars, opaque_vars, glb_vars, conv_vars, proj_vars>>

Next ==
    \/ \E b \in Biases : PlacesConflict(b)
    \/ \E kind \in BorrowKinds, acc \in AccessDepths, b \in Biases :
            BorrowConflictsWithPlace(kind, acc, b)

Init == ConflictInit /\ MoveIdle /\ FindIdle /\ OpaqueIdle /\ GlbIdle /\ ConvIdle /\ ProjIdle

Spec == Init /\ [][Next]_vars

----------------------------------------------------------------------------
(* UseFinder::find as a state machine: a run starts with the start point   *)
(* in the queue, a step is one turn of the loop                            *)

FindInit ==
    /\ body \in Bodies
    /\ regioncx \in {{<<region_vid, p>> : p \in live} : live \in SUBSET Points(body)}
    /\ start_point \in {p \in Points(body) : p.block = 1}
    /\ queue = <<start_point>>
    /\ visited = {}
    /\ cause = Pending

\* the point at the head of the queue is not in the region
PopDead ==
    /\ cause = Pending
    /\ queue # <<>>
    /\ ~region_contains(regioncx, region_vid, Head(queue))
    /\ queue' = Tail(queue)
    /\ UNCHANGED <<body, regioncx, start_point, visited, cause, conflict_vars, move_vars, opaque_vars, glb_vars, conv_vars, proj_vars>>

\* the point at the head of the queue was visited before
PopVisited ==
    /\ cause = Pending
    /\ queue # <<>>
    /\ region_contains(regioncx, region_vid, Head(queue))
    /\ Head(queue) \in visited
    /\ queue' = Tail(queue)
    /\ UNCHANGED <<body, regioncx, start_point, visited, cause, conflict_vars, move_vars, opaque_vars, glb_vars, conv_vars, proj_vars>>

\* a visit that does not look the point up in the visited set
Visits_again(tag) ==
    /\ cause = Pending
    /\ queue # <<>>
    /\ region_contains(regioncx, region_vid, Head(queue))
    /\ def_use(body, Head(queue)).tag = tag
    /\ visited' = visited \cup {Head(queue)}

\* the point at the head of the queue is visited and def_use classifies it as tag
Visits(tag) ==
    /\ cause = Pending
    /\ queue # <<>>
    /\ region_contains(regioncx, region_vid, Head(queue))
    /\ Head(queue) \notin visited
    /\ def_use(body, Head(queue)).tag = tag
    /\ visited' = visited \cup {Head(queue)}

\* a visit of a definition that goes on to the successors of the point
VisitDef_continue ==
    /\ Visits("Def")
    /\ queue' = Tail(queue)
            \o (IF Head(queue).statement_index
                        < Len(body.basic_blocks[Head(queue).block].statements)
                THEN <<successor_within_block(Head(queue))>>
                ELSE successors_not_unwind(body.basic_blocks[Head(queue).block].terminator))
    /\ UNCHANGED <<body, regioncx, start_point, cause, conflict_vars, move_vars, opaque_vars, glb_vars, conv_vars, proj_vars>>


VisitDef ==
    /\ Visits("Def")
    /\ queue' = Tail(queue)
    /\ UNCHANGED <<body, regioncx, start_point, cause, conflict_vars, move_vars, opaque_vars, glb_vars, conv_vars, proj_vars>>

ReturnLiveVar ==
    /\ Visits("UseLive")
    /\ cause' = LiveVar(def_use(body, Head(queue)).local, Head(queue))
    /\ queue' = Tail(queue)
    /\ UNCHANGED <<body, regioncx, start_point, conflict_vars, move_vars, opaque_vars, glb_vars, conv_vars, proj_vars>>

\* mutation of ReturnDropVar: the cause names the start point
ReturnDropVar_start ==
    /\ Visits("UseDrop")
    /\ cause' = DropVar(def_use(body, Head(queue)).local, start_point)
    /\ queue' = Tail(queue)
    /\ UNCHANGED <<body, regioncx, start_point, conflict_vars, move_vars, opaque_vars, glb_vars, conv_vars, proj_vars>>


ReturnDropVar ==
    /\ Visits("UseDrop")
    /\ cause' = DropVar(def_use(body, Head(queue)).local, Head(queue))
    /\ queue' = Tail(queue)
    /\ UNCHANGED <<body, regioncx, start_point, conflict_vars, move_vars, opaque_vars, glb_vars, conv_vars, proj_vars>>

\* a step within the block that puts the successor at the front of the queue
PushSuccessorWithinBlock_front ==
    /\ Visits("None")
    /\ Head(queue).statement_index < Len(body.basic_blocks[Head(queue).block].statements)
    /\ queue' = <<successor_within_block(Head(queue))>> \o Tail(queue)
    /\ UNCHANGED <<body, regioncx, start_point, cause, conflict_vars, move_vars, opaque_vars, glb_vars, conv_vars, proj_vars>>


PushSuccessorWithinBlock ==
    /\ Visits("None")
    /\ Head(queue).statement_index < Len(body.basic_blocks[Head(queue).block].statements)
    /\ queue' = Append(Tail(queue), successor_within_block(Head(queue)))
    /\ UNCHANGED <<body, regioncx, start_point, cause, conflict_vars, move_vars, opaque_vars, glb_vars, conv_vars, proj_vars>>

PushSuccessors ==
    /\ Visits("None")
    /\ ~(Head(queue).statement_index < Len(body.basic_blocks[Head(queue).block].statements))
    /\ queue' = Tail(queue)
            \o successors_not_unwind(body.basic_blocks[Head(queue).block].terminator)
    /\ UNCHANGED <<body, regioncx, start_point, cause, conflict_vars, move_vars, opaque_vars, glb_vars, conv_vars, proj_vars>>

\* the queue is empty
ReturnNone ==
    /\ cause = Pending
    /\ queue = <<>>
    /\ cause' = NoCause
    /\ UNCHANGED <<body, regioncx, start_point, queue, visited, conflict_vars, move_vars, opaque_vars, glb_vars, conv_vars, proj_vars>>

FindNext ==
    \/ PopDead
    \/ PopVisited
    \/ VisitDef
    \/ ReturnLiveVar
    \/ ReturnDropVar
    \/ PushSuccessorWithinBlock
    \/ PushSuccessors
    \/ ReturnNone

InitFind == FindInit /\ ConflictIdle /\ MoveIdle /\ OpaqueIdle /\ GlbIdle /\ ConvIdle /\ ProjIdle

SpecFind == InitFind /\ [][FindNext]_vars

\* find runs to its end: the loop has no suspension point
SpecFindFair == InitFind /\ [][FindNext]_vars /\ WF_vars(FindNext)

----------------------------------------------------------------------------
(* constrain_opaque_type as a state machine: the opaque type declaration,  *)
(* its required region bounds and the free region relations are the       *)
(* inputs of a run                                                         *)

OpaqueInit ==
    /\ \E substs \in SubstsUpTo(MaxSubsts), concrete_ty \in ConcreteTypes,
          has \in BOOLEAN :
            opaque_defn = OpaqueTypeDecl(substs, concrete_ty, has)
    /\ required_region_bounds \in
            IF opaque_defn.has_required_region_bounds
            THEN {<<"'a">>, <<"'a", "'b">>}
            ELSE {<<>>}
    /\ free_region_relations \in FreeRegionRelations
    /\ ot_least_region = "None"
    /\ ot_errors = <<>>
    /\ ot_sub_regions = <<>>
    /\ ot_pc = "called"

\* there are required region bounds: the concrete type is visited with each
ConstrainWithRequiredBounds ==
    /\ ot_pc = "called"
    /\ opaque_defn.has_required_region_bounds
    /\ ot_sub_regions' =
            visit_with_bounds(required_region_bounds, opaque_defn.concrete_ty, 1)
    /\ ot_pc' = "returned"
    /\ UNCHANGED <<opaque_defn, required_region_bounds, free_region_relations,
                   ot_least_region, ot_errors, conflict_vars, move_vars, find_vars, glb_vars, conv_vars, proj_vars>>

\* there are none: the least region of the lifetime arguments is searched
\* and the concrete type is visited with it
ConstrainWithLeastRegion ==
    /\ ot_pc = "called"
    /\ ~opaque_defn.has_required_region_bounds
    /\ LET found == least_region_loop(free_region_relations, opaque_defn.substs, 1, "None")
       IN /\ ot_errors' = found.errors
          /\ ot_least_region' = unwrap_or_static(found.least_region)
          /\ ot_sub_regions' =
                visit_ty(unwrap_or_static(found.least_region), opaque_defn.concrete_ty)
    /\ ot_pc' = "returned"
    /\ UNCHANGED <<opaque_defn, required_region_bounds, free_region_relations,
                   conflict_vars, move_vars, find_vars, glb_vars, conv_vars, proj_vars>>

OpaqueNext == ConstrainWithRequiredBounds \/ ConstrainWithLeastRegion

InitOpaque == OpaqueInit /\ ConflictIdle /\ MoveIdle /\ FindIdle /\ GlbIdle /\ ConvIdle /\ ProjIdle

SpecOpaque == InitOpaque /\ [][OpaqueNext]_vars

----------------------------------------------------------------------------
(* Glb as a state machine: two types are related once                      *)

\* type t with the regions 'a and 'b exchanged
RECURSIVE SwapRegions(_)
SwapRegions(t) ==
    LET swap(r) == IF r = "'a" THEN "'b" ELSE IF r = "'b" THEN "'a" ELSE r
    IN CASE t.sty = "Adt" -> GAdt(t.variance, swap(t.region))
         [] t.sty = "Ref" -> GRef(swap(t.region), SwapRegions(t.ty))
         [] t.sty = "RefMut" -> GRefMut(swap(t.region), SwapRegions(t.ty))
         [] t.sty = "Array" -> GArray(SwapRegions(t.ty), t.len)
         [] t.sty = "FnPtr" -> GFnPtr(SwapRegions(t.arg))
         [] OTHER -> t

\* a type is related with itself, with the type that names the other region,
\* or with u32
GlbInit ==
    /\ glb_a \in GlbTypes(MaxTyDepth)
    /\ glb_b \in {glb_a, SwapRegions(glb_a), GUint}
    /\ glb_result = Err("none")
    /\ glb_pc = "called"

GlbRelate ==
    /\ glb_pc = "called"
    /\ glb_result' = Glb_tys(glb_a, glb_b)
    /\ glb_pc' = "returned"
    /\ UNCHANGED <<glb_a, glb_b, conflict_vars, move_vars, find_vars, opaque_vars, conv_vars, proj_vars>>

GlbNext == GlbRelate

InitGlb == GlbInit /\ ConflictIdle /\ MoveIdle /\ FindIdle /\ OpaqueIdle /\ ConvIdle /\ ProjIdle

SpecGlb == InitGlb /\ [][GlbNext]_vars

----------------------------------------------------------------------------
(* ConstraintConversion as a state machine: a converter is made with its   *)
(* locations and category and is called until a bug! ends the pass         *)

ConvInit ==
    /\ constraints = MirTypeckRegionConstraints(<<>>, <<>>, <<>>)
    /\ locations \in {"All", "Single"}
    /\ category \in {"Boring", "Assignment"}
    /\ cc_status = "ok"
    /\ cc_calls = <<>>
    /\ cc_before = MirTypeckRegionConstraints(<<>>, <<>>, <<>>)
    /\ cc_vid_calls = 0

\* a call named op with argument arg that leaves the converter as after
ConvCalled(call, arg, after) ==
    /\ cc_status = "ok"
    /\ Len(cc_calls) < MaxCalls
    /\ cc_calls' = Append(cc_calls, [op |-> call, arg |-> arg])
    /\ cc_before' = constraints
    /\ constraints' = after.constraints
    /\ cc_status' = after.status
    /\ cc_vid_calls' = after.vid_calls
    /\ UNCHANGED <<locations, category, conflict_vars, move_vars, find_vars,
                   opaque_vars, glb_vars, proj_vars>>

Convert(query_constraint) ==
    ConvCalled("convert", query_constraint,
           convert(Conv(constraints, "ok", 0, 0), query_constraint))

ConvertAll(query_constraints) ==
    ConvCalled("convert_all", query_constraints,
           convert_all(Conv(constraints, "ok", 0, 0), query_constraints, 1))

PushSubRegionConstraint(a, b) ==
    ConvCalled("push_sub_region_constraint", <<a, b>>,
           push_sub_region_constraint(Conv(constraints, "ok", 0, 0), a, b))

PushVerify(kind, a, bound) ==
    ConvCalled("push_verify", <<kind, a, bound>>,
           push_verify(Conv(constraints, "ok", 0, 0), kind, a, bound))

ConvNext ==
    \/ \E query_constraint \in QueryRegionConstraints : Convert(query_constraint)
    \/ \E query_constraints \in QueryBatches : ConvertAll(query_constraints)
    \/ \E a \in {"'a", "'b", RePlaceholder}, b \in {"'a", "'b", RePlaceholder} :
            PushSubRegionConstraint(a, b)
    \/ \E a \in {"'a", RePlaceholder} : PushVerify("T", a, "AnyBound")

InitConv == ConvInit /\ ConflictIdle /\ MoveIdle /\ FindIdle /\ OpaqueIdle /\ GlbIdle /\ ProjIdle

SpecConv == InitConv /\ [][ConvNext]_vars

----------------------------------------------------------------------------
(* place_projection_conflict as a state machine: two projections out of    *)
(* the same array are given with a bias and compared                      *)

ProjInit ==
    /\ pi_elem1 \in {elem \in ArrayProjections : ValidProjection(elem)}
    /\ pi_elem2 \in {elem \in ArrayProjections : ValidProjection(elem)}
    /\ pi_bias \in Biases
    /\ pi_overlap = "pending"

PlaceProjectionConflict ==
    /\ pi_overlap = "pending"
    /\ pi_overlap' = place_projection_conflict(PlaceTy("AU", 0), pi_elem1, pi_elem2, pi_bias)
    /\ UNCHANGED <<pi_elem1, pi_elem2, pi_bias, conflict_vars, move_vars, find_vars,
                   opaque_vars, glb_vars, conv_vars>>

ProjNext == PlaceProjectionConflict

InitProj ==
    ProjInit /\ ConflictIdle /\ MoveIdle /\ FindIdle /\ OpaqueIdle /\ GlbIdle /\ ConvIdle

SpecProj == InitProj /\ [][ProjNext]_vars

----------------------------------------------------------------------------
(* Properties of the conflict analysis *)

Called == op # "none"

\* a base place_base_conflict never reports as equal to itself: a mutable
\* static, or a promoted of type [T; 0]
IgnoredBase(b) ==
    \/ b.kind = "Static" /\ is_mutable_static(b.id)
    \/ b.kind = "Promoted" /\ TypeTable[promoted_ty[b.id]].sty = "Array"
            /\ TypeTable[promoted_ty[b.id]].len = 0

\* the first n projections of place p hold an Index step
HasIndex(p, n) == \E i \in 1..n : p.proj[i].tag = "Index"

\* place p dereferences a shared reference somewhere
DerefsShared(p) ==
    \E i \in 1..Len(p.proj) :
        /\ p.proj[i].tag = "Deref"
        /\ TypeTable[place_ty(p, i - 1).ty].sty = "Ref"
        /\ TypeTable[place_ty(p, i - 1).ty].mutbl = "MutImmutable"

\* C1 as stated: places_conflict(P, P, bias) is true for every place P and
\* every bias.
C1_SelfConflictAlways ==
    (op = "places_conflict" /\ borrow_place = access_place) => result = "true"

\* C1 amended: places_conflict(P, P, bias) is true exactly when the base of P
\* is not a mutable static nor a promoted [T; 0] and either the bias is
\* Overlap or P has no Index step; it is false otherwise.
C1_SelfConflict ==
    (op = "places_conflict" /\ borrow_place = access_place) =>
        result = IF /\ ~IgnoredBase(borrow_place.base)
                    /\ (bias = "Overlap" \/ ~HasIndex(borrow_place, Len(borrow_place.proj)))
                 THEN "true" ELSE "false"

C1_Witness ==
    /\ op = "places_conflict"
    /\ borrow_place = access_place
    /\ HasIndex(borrow_place, Len(borrow_place.proj))
    /\ bias = "Overlap"
    /\ result = "true"

\* C2 as stated: the query is symmetric in the two places for every borrow
\* kind, access depth and bias.
C2_SymmetricAlways ==
    op = "borrow_conflicts_with_place" =>
        result = borrow_conflicts_with_place(
                    access_place, borrow_kind, borrow_place, access, bias)

\* C2 amended: the query is symmetric in the two places when both have
\* equally many projections, and otherwise when the borrow kind is not
\* Shallow, the access depth is Deep and neither place dereferences a shared
\* reference.
C2_Symmetric ==
    (/\ op = "borrow_conflicts_with_place"
     /\ \/ Len(borrow_place.proj) = Len(access_place.proj)
        \/ /\ borrow_kind # "Shallow"
           /\ access = "Deep"
           /\ ~DerefsShared(borrow_place)
           /\ ~DerefsShared(access_place)) =>
        result = borrow_conflicts_with_place(
                    access_place, borrow_kind, borrow_place, access, bias)

C2_Witness ==
    /\ op = "borrow_conflicts_with_place"
    /\ borrow_kind = "Unique"
    /\ access = "Deep"
    /\ borrow_place.base = access_place.base
    /\ Len(borrow_place.proj) > Len(access_place.proj)
    /\ access_place.proj = SubSeq(borrow_place.proj, 1, Len(access_place.proj))
    /\ ~DerefsShared(borrow_place)
    /\ result = "true"

\* C3: two places with different bases never conflict, whatever the
\* projections, borrow kind, access depth and bias.
C3_DifferentRoots ==
    (Called /\ borrow_place.base # access_place.base) => result = "false"

C3_Witness ==
    /\ op = "borrow_conflicts_with_place"
    /\ borrow_place.base.kind = "Static"
    /\ access_place.base.kind = "Promoted"
    /\ Len(borrow_place.proj) > 0
    /\ Len(access_place.proj) > 0
    /\ result = "false"

\* the two places share the prefix of n projections, of an Adt type that is
\* (union = TRUE) or is not (union = FALSE) a union, and go on with two
\* different fields of it
FieldSplit(n, union) ==
    /\ borrow_place.base = access_place.base
    /\ n < Len(borrow_place.proj)
    /\ n < Len(access_place.proj)
    /\ SubSeq(borrow_place.proj, 1, n) = SubSeq(access_place.proj, 1, n)
    /\ TypeTable[place_ty(borrow_place, n).ty].sty = "Adt"
    /\ TypeTable[place_ty(borrow_place, n).ty].is_union = union
    /\ borrow_place.proj[n + 1].tag = "Field"
    /\ access_place.proj[n + 1].tag = "Field"
    /\ borrow_place.proj[n + 1].f # access_place.proj[n + 1].f

\* C4 as stated: a borrow of u.x and an access to u.y, u a union, conflict
\* for every place u, borrow kind, access depth and bias.
C4_UnionFieldsAlways ==
    \A n \in 0..MaxProj : (Called /\ FieldSplit(n, TRUE)) => result = "true"

\* C4 amended: a borrow of u.x and an access to u.y, u a union, conflict for
\* every borrow kind and access depth exactly when u is not rooted at a
\* mutable static or a promoted [T; 0] and either the bias is Overlap or u
\* has no Index step; otherwise the query returns false.
C4_UnionFields ==
    \A n \in 0..MaxProj :
        (Called /\ FieldSplit(n, TRUE)) =>
            result = IF /\ ~IgnoredBase(borrow_place.base)
                        /\ (bias = "Overlap" \/ ~HasIndex(borrow_place, n))
                     THEN "true" ELSE "false"

C4_Witness ==
    /\ op = "borrow_conflicts_with_place"
    /\ FieldSplit(1, TRUE)
    /\ borrow_place.proj[1].tag = "Index"
    /\ Len(borrow_place.proj) > 2
    /\ borrow_kind = "Shallow"
    /\ access = "Shallow(None)"
    /\ bias = "Overlap"
    /\ result = "true"

\* C5: a borrow of a.x and an access to a.y, a of struct type and x, y two
\* different fields, never conflict, whatever follows the field step and
\* for every borrow kind, access depth and bias.
C5_StructFields ==
    \A n \in 0..MaxProj : (Called /\ FieldSplit(n, FALSE)) => result = "false"

C5_Witness ==
    /\ op = "borrow_conflicts_with_place"
    /\ FieldSplit(1, FALSE)
    /\ Len(borrow_place.proj) > 2
    /\ access = "Deep"
    /\ bias = "Overlap"
    /\ result = "false"

\* the local of the type of the immutable static, and place p rooted at it
LocalLike(p) ==
    Place(Local(CHOOSE l \in Locals : local_decls[l] = BaseTy(p.base)), p.proj)

\* C20: two places rooted at the same mutable static never conflict, for
\* every pair of projection lists, borrow kind, access depth and bias; two
\* places rooted at the same immutable static give the answer of the same
\* two projection lists rooted at one local
C20_StaticRoots ==
    (/\ Called
     /\ borrow_place.base.kind = "Static"
     /\ borrow_place.base = access_place.base) =>
        IF is_mutable_static(borrow_place.base.id)
        THEN result = "false"
        ELSE result = borrow_conflicts_with_place(
                        LocalLike(borrow_place), borrow_kind,
                        LocalLike(access_place), access, bias)

\* a query on the same projections of the mutable static answered false
C20_Witness ==
    /\ op = "borrow_conflicts_with_place"
    /\ borrow_place.base = Static(2)
    /\ access_place = borrow_place
    /\ Len(borrow_place.proj) > 0
    /\ result = "false"

\* the two places have the same base and the same first n projections, and
\* go on with an Index step against an Index, ConstantIndex or Subslice step
IndexSplit(n) ==
    /\ borrow_place.base = access_place.base
    /\ n < Len(borrow_place.proj)
    /\ n < Len(access_place.proj)
    /\ SubSeq(borrow_place.proj, 1, n) = SubSeq(access_place.proj, 1, n)
    /\ \/ /\ borrow_place.proj[n + 1].tag = "Index"
          /\ access_place.proj[n + 1].tag \in {"Index", "ConstantIndex", "Subslice"}
       \/ /\ borrow_place.proj[n + 1].tag \in {"ConstantIndex", "Subslice"}
          /\ access_place.proj[n + 1].tag = "Index"

\* C21: when the two places agree up to an Index step against an Index,
\* ConstantIndex or Subslice step, the query is false under NoOverlap, and
\* under Overlap the step is passed as possibly equal and the answer is
\* that of the walk over the projections that follow it
C21_IndexByBias ==
    \A n \in 0..MaxProj :
        (Called /\ IndexSplit(n)) =>
            IF bias = "NoOverlap" \/ IgnoredBase(borrow_place.base)
            THEN result = "false"
            ELSE result = components_loop(borrow_place, borrow_kind,
                                          access_place, access, bias, n + 2)

\* the same local indexes both places and the query under NoOverlap is false
C21_Witness ==
    /\ op = "borrow_conflicts_with_place"
    /\ bias = "NoOverlap"
    /\ IndexSplit(0)
    /\ borrow_place.base = Local(3)
    /\ borrow_place.proj[1] = access_place.proj[1]
    /\ Len(borrow_place.proj) > 1
    /\ result = "false"

\* the access place is a strict prefix of the borrow place
AccessIsStrictPrefix ==
    /\ borrow_place.base = access_place.base
    /\ Len(access_place.proj) < Len(borrow_place.proj)
    /\ access_place.proj = SubSeq(borrow_place.proj, 1, Len(access_place.proj))

\* the projections of the borrow place past the access place
Remainder ==
    SubSeq(borrow_place.proj, Len(access_place.proj) + 1, Len(borrow_place.proj))

RemainderHasDeref == \E i \in DOMAIN Remainder : Remainder[i].tag = "Deref"

\* the walk over the shared prefix reaches the remainder: the base is not
\* one place_base_conflict ignores, and no Index step of the prefix is
\* taken for disjoint
PrefixPassed ==
    /\ ~IgnoredBase(borrow_place.base)
    /\ bias = "Overlap" \/ ~HasIndex(access_place, Len(access_place.proj))

\* C24 as stated: for an access to a strict prefix of the borrow, with
\* Shallow(None) the query is false iff the remainder of the borrow holds a
\* Deref, and with Shallow(ArrayLength) or Shallow(ShallowBorrow) it is false
C24_ShallowPrefixAlways ==
    (Called /\ AccessIsStrictPrefix) =>
        /\ access = "Shallow(None)" =>
                result = (IF RemainderHasDeref THEN "false" ELSE "true")
        /\ access \in {"Shallow(ArrayLength)", "Shallow(ShallowBorrow)"} =>
                result = "false"

\* C24: for an access to a strict prefix of the borrow whose shared prefix
\* is passed as possibly equal, with Shallow(None) the query is false iff
\* the remainder of the borrow holds a Deref and true otherwise; when the
\* prefix is not passed it is false; with Shallow(ArrayLength) or
\* Shallow(ShallowBorrow) it is false
C24_ShallowPrefix ==
    (Called /\ AccessIsStrictPrefix) =>
        /\ access = "Shallow(None)" =>
                result = (IF PrefixPassed /\ ~RemainderHasDeref THEN "true" ELSE "false")
        /\ access \in {"Shallow(ArrayLength)", "Shallow(ShallowBorrow)"} =>
                result = "false"

\* a shallow access to a prefix, the borrow going on through a field and
\* then a Deref: no conflict
C24_Witness ==
    /\ op = "borrow_conflicts_with_place"
    /\ AccessIsStrictPrefix
    /\ access = "Shallow(None)"
    /\ PrefixPassed
    /\ Len(Remainder) = 2
    /\ Remainder[1].tag = "Field"
    /\ Remainder[2].tag = "Deref"
    /\ result = "false"

\* projection number i of the borrow place is a Field step out of an ADT
\* that has a destructor
DtorField(i) ==
    /\ borrow_place.proj[i].tag = "Field"
    /\ TypeTable[place_ty(borrow_place, i - 1).ty].sty = "Adt"
    /\ TypeTable[place_ty(borrow_place, i - 1).ty].has_dtor

\* projection number i of the borrow place is a Deref of a reference of
\* mutability mutbl
DerefOfRef(i, mutbl) ==
    /\ borrow_place.proj[i].tag = "Deref"
    /\ TypeTable[place_ty(borrow_place, i - 1).ty].sty = "Ref"
    /\ TypeTable[place_ty(borrow_place, i - 1).ty].mutbl = mutbl

\* the projections of the borrow place past the access place, by number
RemainderSteps == (Len(access_place.proj) + 1)..Len(borrow_place.proj)

\* the first of the remaining projections that is a Field out of an ADT
\* with a destructor or a Deref of a mutable reference, 0 if there is none
FirstDropStep ==
    LET found == {i \in RemainderSteps : DtorField(i) \/ DerefOfRef(i, "MutMutable")}
    IN IF found = {} THEN 0 ELSE CHOOSE i \in found : \A j \in found : i <= j

\* the answer C25 gives for a Drop access to a strict prefix of the borrow
DropAnswer ==
    IF FirstDropStep # 0 /\ DerefOfRef(FirstDropStep, "MutMutable") THEN "false" ELSE "true"

\* C25 as stated: for a Drop access to a strict prefix of the borrow the
\* query is true if a Field out of an ADT with a destructor comes first in
\* the remainder, false if a Deref of a mutable reference comes first, and
\* true if neither occurs
C25_DropPrefixAlways ==
    (Called /\ AccessIsStrictPrefix /\ access = "Drop") => result = DropAnswer

\* C25: for a Drop access to a strict prefix of the borrow whose shared
\* prefix is passed as possibly equal and whose remainder dereferences no
\* shared reference before the deciding step, the query is true if a Field
\* out of an ADT with a destructor comes first in the remainder, false if a
\* Deref of a mutable reference comes first, and true if neither occurs;
\* when the prefix is not passed it is false
C25_DropPrefix ==
    (/\ Called
     /\ AccessIsStrictPrefix
     /\ access = "Drop"
     /\ result # "bug") =>
        result = (IF PrefixPassed THEN DropAnswer ELSE "false")

\* a Drop access to a prefix, the borrow going on through a field of a
\* struct without a destructor and then a Deref of a mutable reference
C25_Witness ==
    /\ op = "borrow_conflicts_with_place"
    /\ AccessIsStrictPrefix
    /\ access = "Drop"
    /\ PrefixPassed
    /\ FirstDropStep = Len(access_place.proj) + 2
    /\ DerefOfRef(FirstDropStep, "MutMutable")
    /\ result = "false"

\* the borrow place is the access place or a strict prefix of it
BorrowIsPrefix ==
    /\ borrow_place.base = access_place.base
    /\ Len(borrow_place.proj) <= Len(access_place.proj)
    /\ borrow_place.proj = SubSeq(access_place.proj, 1, Len(borrow_place.proj))

\* the answer once the borrow path ran out
RanOutAnswer ==
    IF borrow_kind = "Shallow" /\ Len(access_place.proj) > Len(borrow_place.proj)
    THEN "false" ELSE "true"

\* C26: when the borrow place is the access place or a strict prefix of it
\* and the root and every projection of the borrow are matched as possibly
\* equal (the root is not one place_base_conflict ignores, and no Index
\* step is compared under NoOverlap), the query is true for every access
\* depth if the borrow kind is not Shallow, and for a Shallow borrow true
\* iff the access has no further projection
C26_BorrowPrefix ==
    (/\ Called
     /\ BorrowIsPrefix
     /\ ~IgnoredBase(borrow_place.base)
     /\ bias = "Overlap" \/ ~HasIndex(borrow_place, Len(borrow_place.proj))) =>
        result = RanOutAnswer

\* a Shallow borrow of a place with projections against an access that
\* goes deeper: no conflict
C26_Witness ==
    /\ op = "borrow_conflicts_with_place"
    /\ BorrowIsPrefix
    /\ ~IgnoredBase(borrow_place.base)
    /\ borrow_kind = "Shallow"
    /\ Len(borrow_place.proj) > 0
    /\ HasIndex(borrow_place, Len(borrow_place.proj))
    /\ bias = "Overlap"
    /\ Len(access_place.proj) > Len(borrow_place.proj)
    /\ result = "false"

\* C28: a query that returns true under NoOverlap returns true under
\* Overlap as well, for the same places, borrow kind and access depth
C28_BiasMonotone ==
    (Called /\ bias = "NoOverlap" /\ result = "true") =>
        borrow_conflicts_with_place(borrow_place, borrow_kind,
                                    access_place, access, "Overlap") = "true"

\* a query on two places that go through different constant projections of
\* the same array answered true under NoOverlap
C28_Witness ==
    /\ op = "borrow_conflicts_with_place"
    /\ bias = "NoOverlap"
    /\ result = "true"
    /\ Len(borrow_place.proj) > 1
    /\ Len(access_place.proj) > 1
    /\ borrow_place.proj[1].tag \in {"ConstantIndex", "Subslice"}
    /\ access_place.proj[1].tag \in {"ConstantIndex", "Subslice"}
    /\ borrow_place.proj[1] # access_place.proj[1]

----------------------------------------------------------------------------
(* Properties of the move paths *)

\* the prefix of place p that keeps n projections
Prefix(p, n) == Place(p.base, SubSeq(p.proj, 1, n))

\* place p with its projections abstracted
abstracted(p) == Place(p.base, [i \in 1..Len(p.proj) |-> lift(p.proj[i])])

\* the move paths created for place p
NodesOf(p) == {i \in 1..Len(move_paths) : move_paths[i].place = p}

\* the place the chain of parents of move path i spells in the lookup tables
RECURSIVE spelled(_)
spelled(i) ==
    IF move_paths[i].parent = 0
    THEN Place(Local(CHOOSE l \in DOMAIN rev_lookup.locals : rev_lookup.locals[l] = i), <<>>)
    ELSE LET up == spelled(move_paths[i].parent)
             key == CHOOSE k \in DOMAIN rev_lookup.projections :
                        k[1] = move_paths[i].parent /\ rev_lookup.projections[k] = i
         IN Place(up.base, Append(up.proj, key[2]))

NumLocals == Cardinality(Locals)

\* C6: find of a registered place rooted at a local returns Exact(idx), idx
\* the move path the registration produced, whose chain of parents spells
\* the abstracted projections of the place.
C6_FindExact ==
    /\ (mp_op = "move_path_for" /\ mp_result.tag = "Ok") =>
            /\ mp_result.path \in NodesOf(mp_place)
            /\ find(rev_lookup, mp_place) = Exact(mp_result.path)
    /\ (mp_op = "find" /\ mp_place.base.kind = "Local" /\ NodesOf(mp_place) # {}) =>
            \E i \in NodesOf(mp_place) :
                /\ mp_result = Exact(i)
                /\ spelled(i) = abstracted(mp_place)

C6_Witness ==
    /\ mp_op = "find"
    /\ Len(mp_place.proj) >= 2
    /\ mp_result.tag = "Exact"
    /\ mp_result.path > NumLocals
    /\ mp_result.path < Len(move_paths)

\* the longest proper prefix of place p that has a move path
DeepestRegistered(p) ==
    CHOOSE n \in 0..(Len(p.proj) - 1) :
        /\ NodesOf(Prefix(p, n)) # {}
        /\ \A m \in (n + 1)..(Len(p.proj) - 1) : NodesOf(Prefix(p, m)) = {}

\* C7: find of a place rooted at a local that was never registered returns
\* Parent(Some(idx)), idx the move path of its deepest registered prefix.
C7_FindParent ==
    (mp_op = "find" /\ mp_place.base.kind = "Local" /\ NodesOf(mp_place) = {}) =>
        \E i \in NodesOf(Prefix(mp_place, DeepestRegistered(mp_place))) :
            mp_result = Parent(i)

C7_Witness ==
    /\ mp_op = "find"
    /\ NodesOf(mp_place) = {}
    /\ mp_result.tag = "Parent"
    /\ mp_result.path > NumLocals
    /\ move_paths[mp_result.path].parent > NumLocals
    /\ Len(mp_place.proj) > Len(move_paths[mp_result.path].place.proj)

\* no two move paths stand for the same local and abstracted projections
NoDuplicates ==
    \A i, j \in 1..Len(move_paths) :
        i # j => abstracted(move_paths[i].place) # abstracted(move_paths[j].place)

\* place p with the operand of every Index projection changed to another local
OtherOperands(p) ==
    Place(p.base,
          [i \in 1..Len(p.proj) |->
              IF p.proj[i].tag = "Index"
              THEN Index(CHOOSE l \in Locals : l # p.proj[i].local /\ local_decls[l] = "i32")
              ELSE p.proj[i]])

----------------------------------------------------------------------------
(* Properties of the liveness search *)

\* the region is live at point p
LiveAt(p) == <<region_vid, p>> \in regioncx

\* the mentions at point p of the locals whose type mentions the region
RegionMentions(p) ==
    SelectSeq(visitable(body.basic_blocks[p.block], p.statement_index),
              LAMBDA m : region_vid \in body.local_decls[m.local])

\* point p uses or drops a local whose type mentions the region
UsesOrDrops(p) ==
    \E i \in DOMAIN RegionMentions(p) : RegionMentions(p)[i].context \in {"Use", "Drop"}

\* the control-flow successors of point p, the unwind edge included
ControlFlowSuccessors(p) ==
    LET block_data == body.basic_blocks[p.block]
    IN IF p.statement_index < Len(block_data.statements)
       THEN {Location(p.block, p.statement_index + 1)}
       ELSE {Location(block_data.terminator.successors[i], 0) :
                i \in DOMAIN block_data.terminator.successors}

\* the points reached from the points of from along control-flow edges
\* without leaving the set within
RECURSIVE ReachWithin(_, _)
ReachWithin(from, within) ==
    LET more == from \cup (UNION {ControlFlowSuccessors(p) : p \in from} \cap within)
    IN IF more = from THEN from ELSE ReachWithin(more, within)

\* the points some control-flow path from start_point reaches with the
\* region live at every point of the path
LivePath ==
    IF LiveAt(start_point)
    THEN ReachWithin({start_point}, {p \in Points(body) : LiveAt(p)})
    ELSE {}

\* the body is one block without a successor
StraightLine ==
    /\ Len(body.basic_blocks) = 1
    /\ body.basic_blocks[1].terminator.successors = <<>>

\* the points of the block from start_point up to u
UpTo(u) ==
    {p \in Points(body) : /\ p.block = start_point.block
                          /\ start_point.statement_index <= p.statement_index
                          /\ p.statement_index <= u.statement_index}

\* the region is live from start_point up to u, and of these points only u
\* mentions a local whose type mentions the region: once, as a use of local
SingleUse(u, local) ==
    /\ u \in UpTo(u)
    /\ \A p \in UpTo(u) : LiveAt(p)
    /\ \A p \in UpTo(u) \ {u} : RegionMentions(p) = <<>>
    /\ RegionMentions(u) = <<Mention(local, "Use")>>

\* C9: on a body of one block without branches where the region is live from
\* start_point up to a point u, and u is the only point of that range that
\* mentions a local whose type mentions the region, as a use, find returns
\* Some(Cause::LiveVar(local, u)).
C9_StraightLineUse ==
    (cause # Pending /\ StraightLine) =>
        \A u \in Points(body), local \in DOMAIN body.local_decls :
            SingleUse(u, local) => cause = LiveVar(local, u)

\* the search walked over two points, one of them mentioning a local of
\* another type, before it returned the use
C9_Witness ==
    /\ StraightLine
    /\ cause.tag = "LiveVar"
    /\ SingleUse(cause.point, cause.local)
    /\ cause.point.statement_index >= start_point.statement_index + 2
    /\ \E p \in UpTo(cause.point) :
            visitable(body.basic_blocks[p.block], p.statement_index) # <<>>
                /\ RegionMentions(p) = <<>>

\* C10: find never looks at a point outside the body; if the region is not
\* live at start_point, or no control-flow path from start_point reaches a
\* use or a drop of a local whose type mentions the region with the region
\* live all along, find returns None; and the point of a cause it returns is
\* reached from start_point by a path the region is live all along.
C10_DeadNoCause ==
    /\ \A i \in DOMAIN queue : queue[i] \in Points(body)
    /\ cause # Pending =>
        /\ ~LiveAt(start_point) => cause = NoCause
        /\ (\A p \in LivePath : ~UsesOrDrops(p)) => cause = NoCause
        /\ cause # NoCause => cause.point \in LivePath

\* the region is live at start_point and a use or drop lies ahead in the
\* other block, behind a point where the region is dead: find returned None
C10_Witness ==
    /\ cause = NoCause
    /\ LiveAt(start_point)
    /\ Cardinality(visited) >= 2
    /\ \E p \in ReachWithin({start_point}, Points(body)) :
            /\ p.block # start_point.block
            /\ UsesOrDrops(p)
            /\ LiveAt(p)
            /\ p \notin LivePath

\* C11: the search terminates on every body, loops and self-loops included:
\* a step that pushes successors visits a point that was not visited before
\* and marks it visited, no point ever leaves the visited set, and every run
\* ends with a cause or with None.
C11_Terminates ==
    /\ [][/\ visited \subseteq visited'
          /\ (queue' # queue /\ queue' # Tail(queue)) =>
                /\ Head(queue) \notin visited
                /\ visited' = visited \cup {Head(queue)}]_vars
    /\ <>(cause # Pending)

\* the search went round a loop, met the points it had visited and ended
\* with every point of the body visited
C11_Witness ==
    /\ cause = NoCause
    /\ visited = Points(body)
    /\ \E bb \in 1..Len(body.basic_blocks) :
            \E i \in DOMAIN body.basic_blocks[bb].terminator.successors :
                body.basic_blocks[bb].terminator.successors[i] = bb

\* the successors of point p the search follows: the next point of the
\* block, or the first points of the successors of the terminator other
\* than its unwind target
SearchSuccessors(p) ==
    LET block_data == body.basic_blocks[p.block]
    IN IF p.statement_index < Len(block_data.statements)
       THEN {Location(p.block, p.statement_index + 1)}
       ELSE {Location(block_data.terminator.successors[i], 0) :
                i \in {j \in DOMAIN block_data.terminator.successors :
                        block_data.terminator.successors[j] # block_data.terminator.unwind}}

\* the live points whose classification by def_use is within tags
LivePoints(tags) ==
    {p \in Points(body) : LiveAt(p) /\ def_use(body, p).tag \in tags}

\* the points reached from start_point in at most n steps through live
\* points, every point before the last one being of passable
RECURSIVE Near(_, _)
Near(n, passable) ==
    IF n = 0
    THEN (IF LiveAt(start_point) THEN {start_point} ELSE {})
    ELSE LET nearer == Near(n - 1, passable)
         IN nearer \cup {q \in UNION {SearchSuccessors(p) : p \in nearer \cap passable} :
                            LiveAt(q)}

\* a point that def_use classifies as a use or a drop is reached in fewer
\* steps than the point of the cause, along points of passable
NearerUse(passable) ==
    \E q \in LivePoints({"UseLive", "UseDrop"}), n \in 0..Cardinality(Points(body)) :
        /\ q \in Near(n, passable)
        /\ cause.point \notin Near(n, passable)

\* C17 as stated: when find returns a cause at p, no use or drop lies at a
\* point reached from start_point through live points in fewer steps than p
C17_NearestThroughLive ==
    cause.tag \in {"LiveVar", "DropVar"} =>
        ~NearerUse(LivePoints({"None", "Def", "UseLive", "UseDrop"}))

\* C17: when find returns a cause at p, no use or drop lies at a point
\* reached from start_point in fewer steps than p through live points that
\* mention no local whose type mentions the region
C17_NearestCause ==
    cause.tag \in {"LiveVar", "DropVar"} =>
        ~NearerUse(LivePoints({"None"}))

\* a cause was returned two steps from start_point or farther, and another
\* use or drop is reached by the search paths as well
C17_Witness ==
    /\ cause.tag \in {"LiveVar", "DropVar"}
    /\ cause.point \notin Near(1, LivePoints({"None"}))
    /\ \E q \in LivePoints({"UseLive", "UseDrop"}) :
        /\ q # cause.point
        /\ q.block # cause.point.block
        /\ q \in Near(Cardinality(Points(body)), LivePoints({"None"}))

\* the points in the queue
Queued == {queue[i] : i \in DOMAIN queue}

\* the points reached from start_point along live points and edges that are
\* not unwind edges
NoUnwindReach ==
    Near(Cardinality(Points(body)), LivePoints({"None", "Def", "UseLive", "UseDrop"}))

\* the points reached from start_point along the paths of the search
SearchReach == Near(Cardinality(Points(body)), LivePoints({"None"}))

\* C18: every point the search enqueues after start_point is the next point
\* of a visited point or the first point of a successor block, other than
\* the unwind target, of a visited terminator, and every such successor of a
\* visited point without a mention is enqueued; so a returned cause is
\* never at a point that only an unwind edge leads to, and a use or drop in
\* a successor block that is not the unwind target is not missed
C18_NoUnwindEdge ==
    /\ \A q \in Queued \cup visited :
            q = start_point \/ \E p \in visited : q \in SearchSuccessors(p)
    /\ \A p \in visited \cap LivePoints({"None"}) :
            \A q \in SearchSuccessors(p) : LiveAt(q) => q \in Queued \cup visited
    /\ cause.tag \in {"LiveVar", "DropVar"} => cause.point \in NoUnwindReach
    /\ cause = NoCause => SearchReach \cap LivePoints({"UseLive", "UseDrop"}) = {}

\* the terminator of block 1 unwinds to block 2, whose first point is a
\* live use that is not visited, and the cause is the use in block 3
C18_Witness ==
    /\ Len(body.basic_blocks) = 3
    /\ body.basic_blocks[1].terminator.unwind = 2
    /\ Location(1, 0) \in visited
    /\ LiveAt(Location(2, 0))
    /\ def_use(body, Location(2, 0)).tag = "UseLive"
    /\ Location(2, 0) \notin visited
    /\ cause.tag \in {"LiveVar", "DropVar"}
    /\ cause.point.block = 3

\* a visited point that defines a local whose type mentions the region is
\* followed by the live point q, a use or drop of such a local
UseAfterDef(q) ==
    /\ q \in LivePoints({"UseLive", "UseDrop"})
    /\ \E d \in visited \cap LivePoints({"Def"}) : q \in SearchSuccessors(d)

\* C19 as stated: the successors of a visited definition are searched, so
\* the search does not end without a cause when a live use or drop follows
\* the definition
C19_ContinuesPastDef ==
    cause = NoCause => ~\E q \in Points(body) : UseAfterDef(q)

\* C19: a point that defines a local whose type mentions the region is not
\* reported as a cause and none of its successors is enqueued from it: every
\* point enqueued after start_point follows a visited point without a mention
C19_DefEndsPath ==
    /\ cause.tag \in {"LiveVar", "DropVar"} =>
            def_use(body, cause.point).tag \in {"UseLive", "UseDrop"}
    /\ \A q \in Queued \cup visited :
            q = start_point
                \/ \E p \in visited \cap LivePoints({"None"}) : q \in SearchSuccessors(p)

\* the search visited a definition that a live use or drop follows and
\* returned no cause
C19_Witness ==
    /\ cause = NoCause
    /\ \E q \in Points(body) : UseAfterDef(q) /\ q \notin visited

\* point p mentions the local in the given context
MentionsAs(p, local, context) ==
    \E i \in DOMAIN visitable(body.basic_blocks[p.block], p.statement_index) :
        visitable(body.basic_blocks[p.block], p.statement_index)[i]
            = Mention(local, context)

\* C29: a cause LiveVar(local, p) or DropVar(local, p) that find returns is
\* justified: the region is live at p, the type of local mentions the
\* region, p mentions local as a use (a drop), and p is reached from
\* start_point along edges that are not unwind edges, through live points
\* of which none before p is classified as a def, use or drop
C29_CauseJustified ==
    cause.tag \in {"LiveVar", "DropVar"} =>
        /\ cause.point \in Points(body)
        /\ LiveAt(cause.point)
        /\ region_vid \in body.local_decls[cause.local]
        /\ MentionsAs(cause.point, cause.local,
                      IF cause.tag = "LiveVar" THEN "Use" ELSE "Drop")
        /\ cause.point \in SearchReach

\* a drop was returned in the third block of a body whose cleanup block
\* holds a live use of the same local
C29_Witness ==
    /\ cause.tag = "DropVar"
    /\ Len(body.basic_blocks) = 3
    /\ body.basic_blocks[1].terminator.unwind = 2
    /\ cause.point.block = 3
    /\ cause.point.statement_index > 0
    /\ LiveAt(Location(2, 0))
    /\ def_use(body, Location(2, 0)).tag = "UseLive"

\* point p mentions, as a use, a local whose type mentions the region
UsesRegionLocal(p) ==
    \E i \in DOMAIN RegionMentions(p) : RegionMentions(p)[i].context = "Use"

\* C30: a point the search visits that uses a local whose type mentions the
\* region is returned as the cause LiveVar, whatever else the point mentions
\* and in whatever order the locals are visited
C30_UseReported ==
    \A p \in visited :
        UsesRegionLocal(p) => cause.tag = "LiveVar" /\ cause.point = p

----------------------------------------------------------------------------
(* Properties of constrain_opaque_type *)

\* the lifetime arguments of the opaque type, in order
LifetimeArgs ==
    LET lifetimes == SelectSeq(opaque_defn.substs, LAMBDA p : p.kind = "Lifetime")
    IN [i \in 1..Len(lifetimes) |-> lifetimes[i].region]

\* the search for a least region ran and constrain_opaque_type returned
SearchedLeastRegion ==
    ot_pc = "returned" /\ ~opaque_defn.has_required_region_bounds

\* the regions of a type that need a bound: all but the late-bound regions
\* and the lifetime parameters of the item that encloses a closure
RECURSIVE RegionsToBound(_)
RegionsToBound(ty) ==
    CASE ty.sty = "Ref" -> ({ty.region} \ {ReLateBound}) \cup RegionsToBound(ty.ty)
      [] ty.sty = "Tuple" -> UNION {RegionsToBound(ty.tys[i]) : i \in DOMAIN ty.tys}
      [] ty.sty = "FnPtr" -> RegionsToBound(ty.binder)
      [] ty.sty = "Closure" ->
            UNION {RegionsToBound(ty.upvar_tys[i]) : i \in DOMAIN ty.upvar_tys}
                \cup RegionsToBound(ty.closure_sig_ty)
      [] OTHER -> {}

MinimalArgs ==
    {LifetimeArgs[i] : i \in DOMAIN LifetimeArgs} \cap
        {a \in FreeRegions :
            \A j \in DOMAIN LifetimeArgs :
                sub_free_regions(free_region_relations, a, LifetimeArgs[j])}

\* C13: with lifetime arguments in any order, constrain_opaque_type reports an
\* ambiguous lifetime bound exactly when no argument is below all the others;
\* when one is, it is chosen as least_region and nothing is reported.
C13_MinimumChosen ==
    (SearchedLeastRegion /\ LifetimeArgs # <<>>) =>
        /\ ot_errors # <<>> <=> MinimalArgs = {}
        /\ MinimalArgs # {} => ot_least_region \in MinimalArgs

----------------------------------------------------------------------------
(* Properties of Glb *)

\* C14: Glb is idempotent: relating a type without inference variables with
\* itself succeeds and returns the type.
C14_GlbIdempotent ==
    (glb_pc = "returned" /\ glb_a = glb_b) =>
        glb_result.ok /\ glb_result.val = glb_a

\* a type was related with itself through a binder, a constant, a mutable
\* reference or a parameter of some variance
C14_Witness ==
    /\ glb_pc = "returned"
    /\ glb_a = glb_b
    /\ glb_result.ok
    /\ glb_result.val = glb_a
    /\ glb_a.sty \in {"Ref", "RefMut", "Array", "FnPtr"}
    /\ \/ glb_a.sty = "FnPtr" /\ glb_a.arg.sty = "Adt"
       \/ glb_a.sty = "Array"
       \/ glb_a.sty \in {"Ref", "RefMut"} /\ glb_a.ty.sty \in {"Adt", "Array", "FnPtr"}

----------------------------------------------------------------------------
(* Properties of the constraint conversion *)

\* the last call made on the converter
LastCall == cc_calls[Len(cc_calls)]

\* a bound variable occurs in the query constraint
HasBoundVars(query_constraint) ==
    \/ query_constraint.r2 = ReLateBound
    \/ query_constraint.k1 = KindLifetime(ReLateBound)
    \/ /\ query_constraint.k1.kind = "Type"
       /\ \E i \in DOMAIN query_constraint.k1.t1 :
            query_constraint.k1.t1[i] = ComponentRegion(ReLateBound)

\* the sequence s is a prefix of the sequence t
IsPrefix(s, t) == Len(s) <= Len(t) /\ SubSeq(t, 1, Len(s)) = s

\* C15: convert of a query constraint that holds bound variables ends in the
\* bound-variables bug! before any to_region_vid, add_outlives or
\* add_type_test call, so the constraints are as they were before the call;
\* convert of a constraint without bound variables never ends in that bug!
C15_BoundVarsAbort ==
    (cc_calls # <<>> /\ LastCall.op = "convert") =>
        /\ HasBoundVars(LastCall.arg) =>
            /\ cc_status = BugBoundVars
            /\ cc_vid_calls = 0
            /\ constraints = cc_before
        /\ ~HasBoundVars(LastCall.arg) => cc_status # BugBoundVars

\* a convert of a type constraint with a late-bound region in the type, made
\* after a call that recorded an edge, ended in the bound-variables bug!
C15_Witness ==
    /\ Len(cc_calls) = 2
    /\ LastCall.op = "convert"
    /\ LastCall.arg.k1.kind = "Type"
    /\ LastCall.arg.r2 # ReLateBound
    /\ HasBoundVars(LastCall.arg)
    /\ cc_status = BugBoundVars
    /\ Len(constraints.outlives_constraints) = 1

\* every call so far was convert of one and the same lifetime constraint
SameLifetimeConverts ==
    /\ cc_status = "ok"
    /\ \A i \in DOMAIN cc_calls :
        /\ cc_calls[i].op = "convert"
        /\ cc_calls[i].arg = cc_calls[1].arg
        /\ cc_calls[i].arg.k1.kind = "Lifetime"

\* C16: the outlives constraints and the type tests before a call are
\* prefixes of the lists after it, and n conversions of the same lifetime
\* constraint leave n equal edges
C16_Monotonic ==
    /\ IsPrefix(cc_before.outlives_constraints, constraints.outlives_constraints)
    /\ IsPrefix(cc_before.type_tests, constraints.type_tests)
    /\ SameLifetimeConverts =>
        /\ Len(constraints.outlives_constraints) = Len(cc_calls)
        /\ \A i \in DOMAIN constraints.outlives_constraints :
            constraints.outlives_constraints[i] = constraints.outlives_constraints[1]

\* the same lifetime constraint was converted twice and left two equal edges
C16_Witness ==
    /\ Len(cc_calls) >= 2
    /\ SameLifetimeConverts
    /\ Len(constraints.outlives_constraints) = Len(cc_calls)
    /\ constraints.outlives_constraints[1] = constraints.outlives_constraints[2]
    /\ constraints.outlives_constraints[1].sup # constraints.outlives_constraints[1].sub

\* the RegionVid of region r: the index of a universal region, or the
\* variable of a placeholder, which follows the universal regions
VidOf(r) ==
    IF r \in UniversalRegionNames
    THEN UniversalIndices[r]
    ELSE Cardinality(UniversalRegionNames)
            + (CHOOSE i \in DOMAIN constraints.placeholder_indices :
                    constraints.placeholder_indices[i] = r)

\* the last call appended exactly the edges of the sequence edges, and no
\* type test
Appended(edges) ==
    /\ constraints.outlives_constraints = cc_before.outlives_constraints \o edges
    /\ constraints.type_tests = cc_before.type_tests

\* C27: convert of a lifetime constraint r1: r2 appends exactly one
\* OutlivesConstraint with sup = vid(r1) and sub = vid(r2);
\* push_sub_region_constraint(a, b) appends exactly one with sup = vid(b)
\* and sub = vid(a); convert of a constant-kind constraint appends nothing;
\* every constraint appended carries the locations and the category of the
\* converter
C27_EdgeDirection ==
    /\ (cc_status = "ok" /\ cc_calls # <<>>) =>
        /\ (LastCall.op = "convert" /\ LastCall.arg.k1.kind = "Lifetime") =>
                Appended(<<OutlivesConstraint(locations, category,
                                              VidOf(LastCall.arg.r2),
                                              VidOf(LastCall.arg.k1.r1))>>)
        /\ LastCall.op = "push_sub_region_constraint" =>
                Appended(<<OutlivesConstraint(locations, category,
                                              VidOf(LastCall.arg[1]),
                                              VidOf(LastCall.arg[2]))>>)
        /\ (LastCall.op = "convert" /\ LastCall.arg.k1.kind = "Const") =>
                Appended(<<>>)
    /\ \A i \in DOMAIN constraints.outlives_constraints :
        /\ constraints.outlives_constraints[i].locations = locations
        /\ constraints.outlives_constraints[i].category = category

\* after a converted lifetime constraint, push_sub_region_constraint of a
\* placeholder below a universal region appended the second edge
C27_Witness ==
    /\ cc_status = "ok"
    /\ Len(cc_calls) = 2
    /\ cc_calls[1].op = "convert"
    /\ cc_calls[1].arg.k1.kind = "Lifetime"
    /\ LastCall.op = "push_sub_region_constraint"
    /\ LastCall.arg = <<RePlaceholder, "'a">>
    /\ category = "Assignment"
    /\ Len(constraints.outlives_constraints) = 2
    /\ constraints.outlives_constraints[2].sup = UniversalIndices["'a"]
    /\ constraints.outlives_constraints[2].sub > Cardinality(UniversalRegionNames)

----------------------------------------------------------------------------
(* Properties of place_projection_conflict on array projections *)

\* the ConstantIndex and the Subslice of the comparison
TheIndex == IF pi_elem1.tag = "ConstantIndex" THEN pi_elem1 ELSE pi_elem2

TheSubslice == IF pi_elem1.tag = "Subslice" THEN pi_elem1 ELSE pi_elem2

\* the lengths of the array that min_length and the subslice allow, up to
\* one that holds every offset of the model on both sides
ArrayLengths(min_length, subslice) ==
    {len \in min_length..(2 * MaxIndex) : len >= subslice.from + subslice.to}

\* the position, from the start, of the element of a ConstantIndex in an
\* array of length len
ElementAt(index, len) ==
    IF index.from_end THEN len - index.offset ELSE index.offset

\* the element lies outside subslice in an array of length len
OutsideSubslice(index, subslice, len) ==
    \/ ElementAt(index, len) < subslice.from
    \/ ElementAt(index, len) >= len - subslice.to

\* C22: a ConstantIndex against a Subslice, in either order and for either
\* direction of the index, is Disjoint exactly when the element lies
\* outside the subslice for every length of the array that min_length
\* allows, and is EqualOrDisjoint otherwise
C22_IndexAgainstSubslice ==
    (/\ pi_overlap \notin {"idle", "pending"}
     /\ {pi_elem1.tag, pi_elem2.tag} = {"ConstantIndex", "Subslice"}) =>
        /\ pi_overlap \in {"Disjoint", "EqualOrDisjoint"}
        /\ pi_overlap = "Disjoint" <=>
                \A len \in ArrayLengths(TheIndex.min_length, TheSubslice) :
                    OutsideSubslice(TheIndex, TheSubslice, len)

\* a subslice compared with an element counted from the end that lies in
\* the tail the subslice leaves out: Disjoint
C22_Witness ==
    /\ pi_elem1.tag = "Subslice"
    /\ pi_elem2.tag = "ConstantIndex"
    /\ pi_elem2.from_end
    /\ pi_elem1.from > 0
    /\ pi_elem2.offset = pi_elem1.to
    /\ pi_overlap = "Disjoint"

\* the larger of two numbers
Larger(m, n) == IF m >= n THEN m ELSE n

\* the offsets from the start and from the end of two ConstantIndex steps
\* of opposite directions
FromBegin == IF pi_elem1.from_end THEN pi_elem2.offset ELSE pi_elem1.offset

FromEnd == IF pi_elem1.from_end THEN pi_elem1.offset ELSE pi_elem2.offset

\* C23: two ConstantIndex steps of the same direction are EqualOrDisjoint
\* exactly when their offsets are equal; of opposite directions, with b
\* from the start and e from the end, exactly when
\* b >= max(min_length1, min_length2) - e, which is when some length of the
\* array from that maximum on makes both the same element; the subtraction
\* does not underflow
C23_ConstantIndexes ==
    (/\ pi_overlap \notin {"idle", "pending"}
     /\ pi_elem1.tag = "ConstantIndex"
     /\ pi_elem2.tag = "ConstantIndex") =>
        /\ pi_overlap \in {"Disjoint", "EqualOrDisjoint"}
        /\ pi_elem1.from_end = pi_elem2.from_end =>
                (pi_overlap = "EqualOrDisjoint" <=> pi_elem1.offset = pi_elem2.offset)
        /\ pi_elem1.from_end # pi_elem2.from_end =>
                /\ FromEnd <= Larger(pi_elem1.min_length, pi_elem2.min_length)
                /\ pi_overlap = "EqualOrDisjoint" <=>
                        FromBegin >= Larger(pi_elem1.min_length, pi_elem2.min_length) - FromEnd
                /\ pi_overlap = "EqualOrDisjoint" <=>
                        \E len \in Larger(pi_elem1.min_length, pi_elem2.min_length)..(2 * MaxIndex) :
                            FromBegin = len - FromEnd

\* an element counted from the end against one counted from the start, of
\* patterns of different minimum lengths, that a longer array makes the same
C23_Witness ==
    /\ pi_elem1.tag = "ConstantIndex"
    /\ pi_elem2.tag = "ConstantIndex"
    /\ pi_elem1.from_end
    /\ ~pi_elem2.from_end
    /\ pi_elem1.min_length < pi_elem2.min_length
    /\ FromBegin + FromEnd > pi_elem2.min_length
    /\ pi_overlap = "EqualOrDisjoint"

====
